---- MODULE Spec2Model ----
(***************************************************************************)
(* The deal-enrichment and prioritization pipeline of deal-intel:          *)
(* analyzeDealPipeline, its worker pool runWithConcurrency, the per-deal   *)
(* enrichDeal, and the analyze-deals task that runs the pipeline.          *)
(*                                                                         *)
(* JavaScript runs one continuation at a time: an action of this module is *)
(* the completion of one outstanding network call together with the code   *)
(* that runs, without suspending, up to the next await.                    *)
(*                                                                         *)
(* A string is a sequence of tokens; the empty string is << >>.  A value   *)
(* that may be null or undefined is a sequence of length 0 or 1.           *)
(***************************************************************************)
EXTENDS Integers, Sequences, FiniteSets, TLC

\* ------------------------------------------------------------------ bounds

\* At most this many open deals are returned by the CRM.
MaxDeals == 3

\* Pool sizes 1..MaxLimit are enumerated next to the pipeline's CONCURRENCY.
MaxLimit == 2

\* analyzeDeals on its own is applied to lists of at most this many entries.
MaxEntries == 2

\* getDealContacts on its own: a person lists at most this many emails, and
\* the source lists at most MaxPersons persons for a deal.
MaxEmailEntries == 2

MaxPersons == 2

\* searchEmails on its own: the mailbox holds at most MaxMessages matching
\* messages, and the caller asks for 1..MaxResults of them.
MaxMessages == 3

MaxResults == 2

\* printDealAnalysis is given 0..MaxPrinted entries.
MaxPrinted == 3

\* The most deals one page request may ask for: the code's 100, scaled down
\* so that a listing of a few deals takes several pages.
PageCap == 2

\* ------------------------------------------------------- program constants

CONCURRENCY == 5

\* retry.maxAttempts of the update-scorecard task, which does retry.
MaxAttemptsScorecard == 2

MaxAttempts == 1

DefaultEmailDays == 90

DefaultMaxEmails == 10

\* ------------------------------------------------------------------ helpers

Min(a, b) == IF a < b THEN a ELSE b

\* Array.prototype.join on strings: the parts separated by sep.
RECURSIVE Join(_, _)
Join(parts, sep) ==
    IF parts = << >> THEN << >>
    ELSE IF Len(parts) = 1 THEN parts[1]
    ELSE parts[1] \o sep \o Join(Tail(parts), sep)

\* Array.prototype.flat on a list of lists.
RECURSIVE Flat(_)
Flat(lists) ==
    IF lists = << >> THEN << >> ELSE Head(lists) \o Flat(Tail(lists))

\* a ?? b on a nullable value.
OrElse(opt, dflt) == IF opt = << >> THEN dflt ELSE opt[1]

\* The outcome of a call: fulfilled with a value, or rejected.
Ok(v) == [ok |-> TRUE, value |-> v]

Fail == [ok |-> FALSE, value |-> << >>]

\* Number.prototype.toString inside a template literal.
Num(n) == <<ToString(n)>>

\* --------------------------------------------------- the external sources
\* What the CRM and the mailbox answer when a call succeeds.  Deals come in
\* four kinds, by position: (1) two contacts with mail and one without an
\* address; (2) one contact whose mailbox search finds nothing and one
\* whose primary address is the empty string; (3) no
\* contact; (0) one contact whose only address is the empty string.

Kind(i) == i % 4

\* The i-th open deal of the CRM, in the order the source lists them.
DealItem(i) ==
    CASE Kind(i) = 1 ->
           [id |-> <<100 + i>>, title |-> "Acme", value |-> <<5000>>,
            currency |-> <<"GBP">>, stage_id |-> <<1>>, update_time |-> <<17>>]
      [] Kind(i) = 2 ->
           [id |-> <<100 + i>>, title |-> "Beta", value |-> << >>,
            currency |-> << >>, stage_id |-> <<9>>, update_time |-> << >>]
      [] Kind(i) = 3 ->
           [id |-> <<100 + i>>, title |-> "Gamma", value |-> <<0>>,
            currency |-> <<"EUR">>, stage_id |-> << >>, update_time |-> <<20>>]
      [] OTHER ->
           [id |-> <<100 + i>>, title |-> "Delta", value |-> <<750>>,
            currency |-> <<"USD">>, stage_id |-> <<2>>, update_time |-> <<5>>]

\* Date.now(), in days like a deal's update_time.
Clock == [now |-> 20]

\* getPersons({deal_id}): response.data, absent for a deal without persons.
PersonsData(dealId) ==
    CASE Kind(dealId - 100) = 1 ->
           << << [id |-> <<11>>, name |-> <<"Ann">>,
                  emails |-> << << [value |-> <<"a@old">>, primary |-> FALSE],
                                   [value |-> <<"ann@x">>, primary |-> TRUE] >> >>],
                 [id |-> <<12>>, name |-> <<"Bob">>,
                  emails |-> << << [value |-> <<"bob@x">>, primary |-> FALSE] >> >>],
                 [id |-> << >>, name |-> << >>, emails |-> << >>] >> >>
      [] Kind(dealId - 100) = 2 ->
           << << [id |-> <<21>>, name |-> <<"Dan">>,
                  emails |-> << << [value |-> <<"dan@x">>, primary |-> TRUE] >> >>],
                 [id |-> <<22>>, name |-> <<"Fay">>,
                  emails |-> << << [value |-> <<"">>, primary |-> TRUE] >> >>] >> >>
      [] Kind(dealId - 100) = 3 -> << >>
      [] OTHER ->
           << << [id |-> <<41>>, name |-> <<"Eve">>,
                  emails |-> << << [value |-> <<"">>, primary |-> FALSE] >> >>] >> >>

\* getActivities({deal_id, limit}): response.data.
ActivitiesData(dealId) ==
    CASE Kind(dealId - 100) = 1 ->
           << << [type |-> "call", subject |-> "Intro", due_date |-> "2026-02-01"],
                 [type |-> "email", subject |-> "Quote", due_date |-> "2026-02-03"] >> >>
      [] Kind(dealId - 100) = 2 -> << >>
      [] Kind(dealId - 100) = 3 ->
           << << [type |-> "task", subject |-> "Renewal", due_date |-> "2026-02-05"] >> >>
      [] OTHER -> << << >> >>

\* The messages the mailbox holds for an address, newest first.
MailOf(email) ==
    CASE email = "ann@x" ->
           << [from |-> "ann@x", to |-> "me@x", subject |-> "Re: quote",
               date |-> "Tue, 3 Feb", snippet |-> "Looks good"],
              [from |-> "me@x", to |-> "ann@x", subject |-> "Quote",
               date |-> "Mon, 2 Feb", snippet |-> "Attached"] >>
      [] email = "bob@x" ->
           << [from |-> "bob@x", to |-> "me@x", subject |-> "Budget",
               date |-> "Sun, 1 Feb", snippet |-> "Need approval"] >>
      [] OTHER -> << >>

\* getStages: the stage names by id.
StagesMap == [id \in {1, 2} |-> IF id = 1 THEN "Proposal" ELSE "Won"]

\* ----------------------------------------------------------- pure functions

\* The first listed email, whatever the flags say.
ResolveEmailFirstListed(person) ==
    LET emails == OrElse(person.emails, << >>)
    IN  IF emails = << >> THEN << >> ELSE emails[1].value

\* person.emails?.find((e) => e.primary)?.value ?? person.emails?.[0]?.value ?? null
ResolveEmail(person) ==
    LET emails  == OrElse(person.emails, << >>)
        primary == SelectSeq(emails, LAMBDA e : e.primary)
        byFlag  == IF primary = << >> THEN << >> ELSE primary[1].value
        first   == IF emails = << >> THEN << >> ELSE emails[1].value
    IN  IF byFlag # << >> THEN byFlag ELSE first

\* getDealContacts, given response.data of the persons request.
getDealContacts(data) ==
    LET persons == OrElse(data, << >>)
    IN  [k \in 1..Len(persons) |->
            [id    |-> OrElse(persons[k].id, 0),
             name  |-> OrElse(persons[k].name, "Unknown"),
             email |-> ResolveEmail(persons[k])]]

\* getDealActivities, given response.data of the activities request.
getDealActivities(data) == OrElse(data, << >>)

\* searchEmails, given the messages the source lists: one record per message.
searchEmails(messages) ==
    [k \in 1..Len(messages) |->
        [from |-> messages[k].from, to |-> messages[k].to,
         subject |-> messages[k].subject, date |-> messages[k].date,
         snippet |-> messages[k].snippet]]

\* The contacts fetch without its catch: a rejection stays a rejection.
CatchContactsMissing(outcome) == outcome

\* getDealContacts(dealId).catch(() => []): the outcome of the caught promise.
CatchContacts(outcome) == IF outcome.ok THEN outcome ELSE Ok(<< >>)

\* The activities fetch without its catch.
CatchActivitiesMissing(outcome) == outcome

\* getDealActivities(dealId, 5).catch(() => [])
CatchActivities(outcome) == IF outcome.ok THEN outcome ELSE Ok(<< >>)

\* contacts.filter((c) => c.email): null and the empty string are falsy.
\* A filter that keeps every contact whose email is not null.
HasEmailNotNull(c) == c.email # << >>

\* (c) => c.email: null and the empty string are both falsy.
HasEmail(c) == c.email # << >> /\ c.email[1] # ""

contactsWithEmail(contacts) == SelectSeq(contacts, HasEmail)

\* emails.map((e) => ({ ...e, contactName: contact.name }))
TagEmails(emails, contact) ==
    [k \in 1..Len(emails) |->
        [from |-> emails[k].from, to |-> emails[k].to, subject |-> emails[k].subject,
         date |-> emails[k].date, snippet |-> emails[k].snippet,
         contactName |-> contact.name]]

\* The try/catch around one contact's search: a failure yields [].
CatchSearch(outcome, contact) ==
    IF outcome.ok THEN TagEmails(outcome.value, contact) ELSE << >>

EmailLine(e) ==
    <<"[", e.date, "] ", e.from, " -> ", e.to, " | Subject: ", e.subject, " | ", e.snippet>>

NoEmailSentence == <<"No email communication found.">>

\* The summary without its fallback sentence.
emailSummaryNoFallback(allEmails) ==
    Join([k \in 1..Len(allEmails) |-> EmailLine(allEmails[k])], <<"\n">>)

emailSummary(allEmails) ==
    IF Len(allEmails) > 0
    THEN Join([k \in 1..Len(allEmails) |-> EmailLine(allEmails[k])], <<"\n">>)
    ELSE NoEmailSentence

ContactText(c) == <<c.name, " <", OrElse(c.email, "no email"), ">">>

contactsList(contacts) ==
    LET joined == Join([k \in 1..Len(contacts) |-> ContactText(contacts[k])], <<", ">>)
    IN  IF joined = << >> THEN <<"None">> ELSE joined

ActivityText(a) == <<a.type, ": ", a.subject, " (", a.due_date, ")">>

activityList(activities) ==
    IF Len(activities) > 0
    THEN Join([k \in 1..Len(activities) |-> ActivityText(activities[k])], <<"; ">>)
    ELSE <<"None">>

stageName(deal, stages) ==
    LET id == OrElse(deal.stage_id, 0)
    IN  IF id \in DOMAIN stages THEN <<stages[id]>>
        ELSE <<"Stage ">> \o (IF deal.stage_id = << >> THEN <<"undefined">>
                              ELSE Num(deal.stage_id[1]))

daysSinceUpdate(deal, now) ==
    IF deal.update_time # << >> THEN now - deal.update_time[1] ELSE -1

\* The first two lines of the template enrichDeal returns.
DealHeader(deal, stages, now) ==
    <<"DEAL #">> \o Num(OrElse(deal.id, 0)) \o <<": ", deal.title, "\nValue: ">>
        \o Num(OrElse(deal.value, 0)) \o <<" ", OrElse(deal.currency, "")>>
        \o <<" | Stage: ">> \o stageName(deal, stages)
        \o <<" | Days since update: ">> \o Num(daysSinceUpdate(deal, now))

\* The string enrichDeal returns, kept as the template's four holes.
DealContext(deal, stages, now, emailDays, contacts, activities, allEmails) ==
    [header     |-> DealHeader(deal, stages, now),
     contacts   |-> contactsList(contacts),
     activities |-> activityList(activities),
     emailDays  |-> emailDays,
     emails     |-> emailSummary(allEmails)]

\* The template literal of enrichDeal, as one string.
Render(ctx) ==
    ctx.header \o <<"\nContacts: ">> \o ctx.contacts
        \o <<"\nRecent activities: ">> \o ctx.activities
        \o <<"\nEmail history (last ">> \o Num(ctx.emailDays) \o <<" days):\n">>
        \o ctx.emails \o <<"\n---">>

\* dealContexts.join("\n\n"): a slot that was never assigned joins as "".
JoinContexts(dealContexts) ==
    Join([k \in 1..Len(dealContexts) |->
             IF dealContexts[k] = << >> THEN << >> ELSE Render(dealContexts[k][1])],
         <<"\n\n">>)

\* ------------------------------------------------------ the model's answer
\* A JSON value: an array of values, an object, or a string.  An object is
\* its properties, each present or not; a string is what JSON.parse makes of
\* its text, nothing when the text is not JSON.

JArr(items) == [t |-> "array", items |-> items, props |-> << >>, text |-> << >>]

JObj(props) == [t |-> "object", items |-> << >>, props |-> <<props>>, text |-> << >>]

JStr(parsed) == [t |-> "string", items |-> << >>, props |-> << >>, text |-> <<parsed>>]

HealthEnum == {"hot", "warm", "cold", "at_risk"}

UrgencyEnum == {"immediate", "this_week", "next_week", "no_rush"}

\* The properties of an object the schema reads; no other property is kept.
NoProps ==
    [deals |-> << >>, deal_id |-> << >>, deal_title |-> << >>, priority_rank |-> << >>,
     deal_health |-> << >>, urgency |-> << >>, recommended_actions |-> << >>,
     reasoning |-> << >>, key_signals |-> << >>, deal_history |-> << >>]

\* z.object({date: z.string(), summary: z.string()})
ValidHistory(h) == h.date # << >> /\ h.summary # << >>

\* One element of DealPrioritySchema.deals.
ValidEntry(v) ==
    /\ v.t = "object"
    /\ LET o == v.props[1]
       IN  /\ o.deal_id # << >>
           /\ o.deal_title # << >>
           /\ o.priority_rank # << >>
           /\ o.deal_health # << >> /\ o.deal_health[1] \in HealthEnum
           /\ o.urgency # << >> /\ o.urgency[1] \in UrgencyEnum
           /\ o.recommended_actions # << >>
           /\ o.reasoning # << >>
           /\ o.key_signals # << >>
           /\ o.deal_history # << >>
           /\ \A k \in 1..Len(o.deal_history[1]) : ValidHistory(o.deal_history[1][k])

\* What the schema returns for a valid element: the declared keys only.
ParsedEntry(v) ==
    LET o == v.props[1]
    IN  [deal_id |-> o.deal_id[1], deal_title |-> o.deal_title[1],
         priority_rank |-> o.priority_rank[1], deal_health |-> o.deal_health[1],
         urgency |-> o.urgency[1], recommended_actions |-> o.recommended_actions[1],
         reasoning |-> o.reasoning[1], key_signals |-> o.key_signals[1],
         deal_history |-> [k \in 1..Len(o.deal_history[1]) |->
                              [date |-> o.deal_history[1][k].date[1],
                               summary |-> o.deal_history[1][k].summary[1]]]]

\* A schema that drops the elements it refuses instead of throwing.
DealPrioritySchemaLenient(deals) ==
    IF deals.t = "array"
    THEN Ok([deals |-> LET kept == SelectSeq(deals.items, ValidEntry)
                       IN  [k \in 1..Len(kept) |-> ParsedEntry(kept[k])]])
    ELSE Fail

\* DealPrioritySchema.parse({ deals })
DealPrioritySchema(deals) ==
    IF deals.t = "array" /\ \A k \in 1..Len(deals.items) : ValidEntry(deals.items[k])
    THEN Ok([deals |-> [k \in 1..Len(deals.items) |-> ParsedEntry(deals.items[k])]])
    ELSE Fail

\* input.deals ?? input
DealsOrInput(input) ==
    IF input.t = "object" /\ input.props[1].deals # << >>
    THEN input.props[1].deals[1]
    ELSE input

\* analyzeDeals validating input.deals ?? input as it comes.
ParseUnnormalized(input) == DealPrioritySchema(DealsOrInput(input))

\* analyzeDeals from the tool block's input on.
NormalizeAndParse(input) ==
    LET deals == DealsOrInput(input)
    IN  IF deals.t = "string" /\ deals.text[1] = << >>
        THEN Fail
        ELSE LET parsed == IF deals.t = "string" THEN deals.text[1][1] ELSE deals
                 listed == IF parsed.t # "array" THEN JArr(<<parsed>>) ELSE parsed
             IN  DealPrioritySchema(listed)

\* analyzeDeals, given the outcome of messages.create: the request may reject,
\* and the response holds a tool_use block or none.
analyzeDeals(response) ==
    IF ~response.ok THEN Fail
    ELSE LET toolBlocks == SelectSeq(response.value, LAMBDA b : b.type = "tool_use")
         IN  IF toolBlocks = << >> THEN Fail
             ELSE NormalizeAndParse(toolBlocks[1].input)

\* An entry the model may return for a deal.
Entry(dealId, rank) ==
    JObj([NoProps EXCEPT !.deal_id = <<dealId>>, !.deal_title = <<"t">>,
                         !.priority_rank = <<rank>>, !.deal_health = <<"hot">>,
                         !.urgency = <<"this_week">>, !.recommended_actions = << <<"call">> >>,
                         !.reasoning = << <<"stale">> >>, !.key_signals = << << >> >>,
                         !.deal_history = << << [date |-> <<"Feb 5">>, summary |-> <<"mail">>] >> >>])

ToolUse(input) == [type |-> "tool_use", input |-> input]

\* { deals: D }
Wrapped(D) == JObj([NoProps EXCEPT !.deals = <<JArr(D)>>])

\* JSON.stringify(v): the string that JSON.parse turns into v.
Stringify(v) == JStr(<<v>>)

\* A string that is not JSON.
NotJson == JStr(<< >>)

\* { deals: <string> }
WrappedString(str) == JObj([NoProps EXCEPT !.deals = <<str>>])

\* A content block that is not a tool_use block; its input is never read.
TextBlock == [type |-> "text", input |-> NotJson]

\* One ranked entry per submitted deal, in the order submitted.
RankedEntries(deals) == [k \in 1..Len(deals) |-> Entry(OrElse(deals[k].id, 0), k)]

\* Answers the schema accepts: the ranked entries; and entries that all
\* carry rank 1, the first of them for deal 999, which the CRM never
\* lists (a deal that was not submitted).  The
\* model is asked for dense ranks and for the submitted ids by prompt only.
AcceptedResponses(deals) ==
    LET unasked == [k \in 1..Len(deals) |->
                       Entry(IF k = 1 THEN 999 ELSE OrElse(deals[k].id, 0), 1)]
    IN  { Ok(<<ToolUse(Wrapped(RankedEntries(deals)))>>),
          Ok(<<ToolUse(Wrapped(unasked))>>) }

\* Answers that cannot be repaired: no tool_use block; a string that is not
\* JSON; a first entry without its title; a first entry whose urgency is
\* outside the enum.
IrreparableResponses(deals) ==
    LET entries == RankedEntries(deals)
        first   == entries[1].props[1]
        untitled == [entries EXCEPT ![1] = JObj([first EXCEPT !.deal_title = << >>])]
        broken   == [entries EXCEPT ![1] = JObj([first EXCEPT !.urgency = <<"soon">>])]
    IN  { Ok(<<TextBlock>>),
          Ok(<<ToolUse(WrappedString(NotJson))>>),
          Ok(<<ToolUse(Wrapped(untitled))>>),
          Ok(<<ToolUse(Wrapped(broken))>>) }

\* The outcomes of messages.create that the pipeline is run against: the
\* request rejects, or the model answers.
ModelResponses(deals) ==
    {Fail} \cup AcceptedResponses(deals) \cup IrreparableResponses(deals)

\* -------------------------------------------------------------------- state

VARIABLES
    pc,          \* where analyzeDealPipeline stands: idle, validate, validateGmail,
                 \* fetch, enrich, analyze, done (returned), failed (rejected)
    attempt,     \* runs of the analyze-deals task started so far
    calls,       \* the pipeline's own calls in flight
    stages,      \* getStagesMap's result, once it settled
    deals,       \* getOpenDeals' result, once it settled
    returnValue,     \* what analyzeDealPipeline returned
    pipelineLog, \* history: <<call, "issued">> and <<call, "ok">> for the calls
                 \* analyzeDealPipeline made itself in this run
    limit,       \* runWithConcurrency: the pool size
    index,       \* runWithConcurrency: the shared cursor
    results,     \* runWithConcurrency: new Array(items.length)
    workers,     \* runWithConcurrency: each worker and the enrichDeal call it awaits
    pool,        \* runWithConcurrency: idle, running, resolved, rejected
    returned,    \* the list runWithConcurrency resolved with
    modelCalls,  \* messages.create requests issued
    modelInput,  \* the text of the last request
    claimLog,    \* history: every <<worker, index>> claimed, in order
    started,     \* history: indexes for which fn was called
    completed,   \* history: indexes for which fn's promise fulfilled
    produced,    \* history: the context enrichDeal returned for each deal
    issued,      \* history: sub-fetches issued, <<index, kind, contact position>>
    failed       \* history: sub-fetches that rejected

pipeVars == <<pc, attempt, calls, stages, deals, returnValue, pipelineLog>>

poolVars == <<limit, index, results, workers, pool, returned>>

modelVars == <<modelCalls, modelInput>>

histVars == <<claimLog, started, completed, produced, issued, failed>>

\* A function of the program applied on its own, outside a run of the task.
VARIABLES
    fnInput,     \* the argument it is applied to, when one is
    fnOutput     \* what it returned or that it threw, once it was applied

fnVars == <<fnInput, fnOutput>>

\* The process analyzeDealPipeline runs in.
VARIABLES
    surface,     \* who called analyzeDealPipeline: the CLI's analyze command or the task
    envOk,       \* whether process.env passes EnvSchema
    exitCode     \* the code the process exited with, once it has

procVars == <<surface, envOk, exitCode>>

\* The mailbox searches of one deal, followed request by request.
VARIABLES
    mail         \* the searches enrichDeal issued and how far each has come

\* getOpenDeals, followed page by page.
VARIABLES
    paging       \* the listing in progress: its requests, what it gathered, its result

vars == <<pipeVars, poolVars, modelVars, histVars, fnVars, procVars, mail, paging>>

\* options.emailDays ?? 90 and options.maxEmails ?? 10, for a call without options.
emailDays == DefaultEmailDays

maxEmails == DefaultMaxEmails

\* A worker whose loop has ended.
DoneWorker ==
    [st |-> "done", i |-> 0, deal |-> << >>, contacts |-> << >>, activities |-> << >>,
     emailResults |-> << >>]

\* A worker that awaits enrichDeal(items[i]): both CRM fetches are in flight.
BusyWorker(i, deal) ==
    [st |-> "busy", i |-> i, deal |-> <<deal>>, contacts |-> << >>, activities |-> << >>,
     emailResults |-> << >>]

\* The cursor read without being advanced.
NextIndexStale(i) == i

\* index++
NextIndex(i) == i + 1

\* One worker per item, whatever the limit.
PoolSizeUnbounded(lim, n) == n

\* Math.min(limit, items.length)
PoolSize(lim, n) == Min(lim, n)

\* results.push(...): the contexts in the order the enrichments complete.
StoreResultPushed(res, i, ctx) ==
    LET free == {k \in 1..Len(res) : res[k] = << >>}
    IN  [res EXCEPT ![CHOOSE k \in free : \A j \in free : k <= j] = <<ctx>>]

\* results[i] = await fn(items[i])
StoreResult(res, i, ctx) == [res EXCEPT ![i + 1] = <<ctx>>]

\* Promise.race over the workers: some worker's loop has ended.
AnyWorkerDone(ws) == \E w \in DOMAIN ws : ws[w].st = "done"

\* Promise.all over the workers: every worker's loop has ended.
AllWorkersDone(ws) == \A w \in DOMAIN ws : ws[w].st = "done"

\* A worker that finds the cursor at the end and waits for more items.
WorkerLoopWaits(ps, w, items) ==
    IF ps.index < Len(items)
    THEN LET i == ps.index
         IN  [ps EXCEPT !.index    = i + 1,
                        !.workers  = [@ EXCEPT ![w] = BusyWorker(i, items[i + 1])],
                        !.claimLog = Append(@, <<w, i>>),
                        !.started  = @ \cup {i},
                        !.issued   = @ \cup {<<i, "contacts", 0>>, <<i, "activities", 0>>}]
    ELSE [ps EXCEPT !.workers = [@ EXCEPT ![w] = [DoneWorker EXCEPT !.st = "waiting"]]]

\* One pass of the worker's while loop up to its await: claim the next index
\* and call fn on it, or leave the loop.  ps holds the pool's state.
WorkerLoop(ps, w, items) ==
    IF ps.index < Len(items)
    THEN LET i == ps.index
         IN  [ps EXCEPT !.index    = NextIndex(i),
                        !.workers  = [@ EXCEPT ![w] = BusyWorker(i, items[i + 1])],
                        !.claimLog = Append(@, <<w, i>>),
                        !.started  = @ \cup {i},
                        !.issued   = @ \cup {<<i, "contacts", 0>>, <<i, "activities", 0>>}]
    ELSE [ps EXCEPT !.workers = [@ EXCEPT ![w] = DoneWorker]]

\* Array.from({ length }, () => worker()): the workers start one after another,
\* each running to its first await.
RECURSIVE Spawn(_, _, _, _)
Spawn(ps, w, m, items) ==
    IF w > m THEN ps ELSE Spawn(WorkerLoop(ps, w, items), w + 1, m, items)

PoolState ==
    [index |-> index, workers |-> workers, claimLog |-> claimLog,
     started |-> started, issued |-> issued]

SetPoolState(ps) ==
    /\ index' = ps.index
    /\ workers' = ps.workers
    /\ claimLog' = ps.claimLog
    /\ started' = ps.started
    /\ issued' = ps.issued

InitialCalls == {"validateCredentials", "getGmailClient"}

\* What the pipeline issues once Promise.all over the initial calls is
\* fulfilled, skipping the mailbox check.
CallsAfterClientSkipCheck == {"getStagesMap", "getOpenDeals"}

\* await validateGmailCredentials(gmail)
CallsAfterClient == {"validateGmailCredentials"}

\* Promise.all([getStagesMap(), getOpenDeals(env.PIPEDRIVE_USER_ID, limit)])
CallsAfterChecks == {"getStagesMap", "getOpenDeals"}

Issued(cs) == {<<c, "issued">> : c \in cs}

\* The task has not run.  The pipeline hands CONCURRENCY to runWithConcurrency;
\* the pool sizes 1..MaxLimit stand for the other values of its parameter.
PipelineIdle ==
    /\ pc = "idle"
    /\ attempt = 0
    /\ calls = {}
    /\ stages = << >>
    /\ deals = << >>
    /\ returnValue = << >>
    /\ pipelineLog = {}
    /\ limit \in (1..MaxLimit) \cup {CONCURRENCY}
    /\ index = 0
    /\ results = << >>
    /\ workers = << >>
    /\ pool = "idle"
    /\ returned = << >>
    /\ modelCalls = 0
    /\ modelInput = << >>
    /\ claimLog = << >>
    /\ started = {}
    /\ completed = {}
    /\ produced = {}
    /\ issued = {}
    /\ failed = {}

\* The task's process, started with a valid environment.
ProcessStarted ==
    /\ surface = "task"
    /\ envOk = TRUE
    /\ exitCode = << >>
    /\ mail = << >>
    /\ paging = << >>

Init ==
    /\ PipelineIdle
    /\ ProcessStarted
    /\ fnInput = << >>
    /\ fnOutput = << >>

\* analyzeDealPipeline is entered: both credential checks are issued.
EnterPipeline ==
    /\ pc' = "validate"
    /\ attempt' = attempt + 1
    /\ calls' = InitialCalls
    /\ stages' = << >>
    /\ deals' = << >>
    /\ returnValue' = << >>
    /\ pipelineLog' = Issued(InitialCalls)
    /\ index' = 0
    /\ results' = << >>
    /\ workers' = << >>
    /\ pool' = "idle"
    /\ returned' = << >>
    /\ modelInput' = << >>
    /\ claimLog' = << >>
    /\ started' = {}
    /\ completed' = {}
    /\ produced' = {}
    /\ issued' = {}
    /\ failed' = {}
    /\ UNCHANGED <<limit, modelCalls>>

\* The analyze-deals task runs its payload through analyzeDealPipeline.
RunTask ==
    /\ pc = "idle"
    /\ EnterPipeline

\* analyzeDealPipeline rejects: the task retries while attempts remain.
RejectRun ==
    IF attempt < MaxAttempts
    THEN EnterPipeline
    ELSE /\ pc' = "failed"
         /\ calls' = {}
         /\ UNCHANGED <<attempt, stages, deals, returnValue, pipelineLog, limit, index, results,
                        workers, pool, returned, modelCalls, modelInput, histVars>>

\* ---------------------------------------------------- analyzeDealPipeline

\* validateCredentials() or getGmailClient() settles; Promise.all continues
\* with validateGmailCredentials once both are fulfilled.
CredentialCallDone(c, ok) ==
    /\ pc = "validate"
    /\ c \in calls
    /\ IF ok
       THEN /\ IF calls \ {c} = {}
               THEN /\ pc' = "validateGmail"
                    /\ calls' = CallsAfterClient
                    /\ pipelineLog' = pipelineLog \cup {<<c, "ok">>} \cup Issued(CallsAfterClient)
               ELSE /\ pc' = pc
                    /\ calls' = calls \ {c}
                    /\ pipelineLog' = pipelineLog \cup {<<c, "ok">>}
            /\ UNCHANGED <<attempt, stages, deals, returnValue, poolVars, modelVars, histVars>>
       ELSE RejectRun

\* validateGmailCredentials(gmail) settles; then getEnv() (the environment was
\* parsed when the CRM check built its configuration) and both fetches start.
ValidateGmailDone(ok) ==
    /\ pc = "validateGmail"
    /\ IF ok
       THEN /\ pc' = "fetch"
            /\ calls' = CallsAfterChecks
            /\ pipelineLog' = pipelineLog \cup {<<"validateGmailCredentials", "ok">>}
                                          \cup Issued(CallsAfterChecks)
            /\ UNCHANGED <<attempt, stages, deals, returnValue, poolVars, modelVars, histVars>>
       ELSE RejectRun

\* The pipeline without its early return.
NoDealsUnchecked(d) == FALSE

\* deals.length === 0
NoDeals(d) == Len(d) = 0

\* The early return for an empty deal list.
EmptyResult == [dealsAnalyzed |-> 0, analysis |-> [deals |-> << >>]]

\* The code after Promise.all([getStagesMap(), getOpenDeals()]): the early
\* return, or runWithConcurrency up to its await.
AfterFetch(s, d) ==
    /\ stages' = s
    /\ deals' = d
    /\ calls' = {}
    /\ IF NoDeals(d)
       THEN /\ pc' = "done"
            /\ returnValue' = <<EmptyResult>>
            /\ UNCHANGED <<index, results, workers, pool, claimLog, started, issued>>
       ELSE LET m  == PoolSize(limit, Len(d))
                ps == [index |-> 0, workers |-> [w \in 1..m |-> DoneWorker],
                       claimLog |-> << >>, started |-> {}, issued |-> {}]
            IN  /\ pc' = "enrich"
                /\ returnValue' = returnValue
                /\ pool' = "running"
                /\ results' = [i \in 1..Len(d) |-> << >>]
                /\ SetPoolState(Spawn(ps, 1, m, d))
    /\ UNCHANGED <<attempt, limit, returned, modelVars, completed, produced, failed>>
    /\ pipelineLog' = pipelineLog \cup {<<c, "ok">> : c \in calls}

GetStagesMapDone(ok) ==
    /\ pc = "fetch"
    /\ "getStagesMap" \in calls
    /\ IF ok
       THEN IF "getOpenDeals" \in calls
            THEN /\ stages' = StagesMap
                 /\ calls' = calls \ {"getStagesMap"}
                 /\ pipelineLog' = pipelineLog \cup {<<"getStagesMap", "ok">>}
                 /\ UNCHANGED <<pc, attempt, deals, returnValue, poolVars, modelVars, histVars>>
            ELSE AfterFetch(StagesMap, deals)
       ELSE RejectRun

\* getOpenDeals(env.PIPEDRIVE_USER_ID, limit) settles with the first n open deals.
GetOpenDealsDone(ok, n) ==
    /\ pc = "fetch"
    /\ "getOpenDeals" \in calls
    /\ IF ok
       THEN LET d == [i \in 1..n |-> DealItem(i)]
            IN  IF "getStagesMap" \in calls
                THEN /\ deals' = d
                     /\ calls' = calls \ {"getOpenDeals"}
                     /\ pipelineLog' = pipelineLog \cup {<<"getOpenDeals", "ok">>}
                     /\ UNCHANGED <<pc, attempt, stages, returnValue, poolVars, modelVars, histVars>>
                ELSE AfterFetch(stages, d)
       ELSE RejectRun

\* ------------------------------------------------------------- enrichDeal

\* A request that does not carry maxResults: the source lists every match.
ListUncapped(mailbox, maxResults) == mailbox

\* gmail.users.messages.list({ q, maxResults }): of the messages matching q
\* the source lists the first maxResults.
ListCapped(mailbox, maxResults) ==
    SubSeq(mailbox, 1, Min(Len(mailbox), maxResults))

ListMessages(email, maxResults) == ListCapped(MailOf(email), maxResults)

\* All emails in the order opposite to the contacts'.
allEmailsLastFirst(emailResults) ==
    Flat([k \in 1..Len(emailResults) |-> emailResults[Len(emailResults) + 1 - k][1]])

\* const allEmails = emailResults.flat()
allEmails(emailResults) ==
    Flat([k \in 1..Len(emailResults) |-> emailResults[k][1]])

\* One try/catch around the whole Promise.all: a failed search empties the
\* records of every contact.
SettleSearchSharedCatch(emailResults, k, settled, contact) ==
    IF settled.ok
    THEN [emailResults EXCEPT ![k] = <<TagEmails(settled.value, contact)>>]
    ELSE [j \in DOMAIN emailResults |-> << << >> >>]

\* One contact's search settles inside Promise.all(contactsWithEmail.map(...)).
SettleSearch(emailResults, k, settled, contact) ==
    [emailResults EXCEPT ![k] = <<CatchSearch(settled, contact)>>]

\* enrichDeal returns ctx to worker w (record t): the worker stores it and
\* goes round its loop.
Return(w, t, ctx) ==
    /\ results' = StoreResult(results, t.i, ctx)
    /\ completed' = completed \cup {t.i}
    /\ produced' = produced \cup {[deal |-> t.deal[1], ctx |-> ctx]}
    /\ SetPoolState(WorkerLoop(PoolState, w, deals))

\* Only the first contact with an email is searched for.
FirstSearchOnly(withEmail) == << << >> >>

\* contactsWithEmail.map(async (contact) => ...): one search per contact with
\* an email, all called before Promise.all awaits any of them.
PendingSearches(withEmail) == [k \in 1..Len(withEmail) |-> << >>]

\* An enrichDeal that starts its searches as soon as the contacts are there
\* and awaits the activities only when there is nothing to search.
AwaitsContactsOnly(t) ==
    \/ t.contacts = << >>
    \/ t.activities = << >> /\ contactsWithEmail(t.contacts[1]) = << >>

\* await Promise.all([getDealContacts(...).catch(...), getDealActivities(...).catch(...)]):
\* enrichDeal stays suspended until both have settled.
AwaitsCrmFetches(t) == t.contacts = << >> \/ t.activities = << >>

\* enrichDeal of worker w, whose record has become t, runs on to its next
\* await or to its return.
EnrichStep(w, t) ==
    IF AwaitsCrmFetches(t)
    THEN /\ workers' = [workers EXCEPT ![w] = t]
         /\ UNCHANGED <<index, results, claimLog, started, completed, produced, issued>>
    ELSE IF t.emailResults = << >>
    THEN LET withEmail == contactsWithEmail(t.contacts[1])
         IN  IF withEmail = << >>
             THEN Return(w, t, DealContext(t.deal[1], stages, Clock.now, emailDays,
                                           t.contacts[1], t.activities[1], << >>))
             ELSE /\ workers' = [workers EXCEPT ![w] =
                        [t EXCEPT !.emailResults = <<PendingSearches(withEmail)>>]]
                  /\ issued' = issued \cup {<<t.i, "search", k>> :
                                               k \in DOMAIN PendingSearches(withEmail)}
                  /\ UNCHANGED <<index, results, claimLog, started, completed, produced>>
    ELSE IF \E k \in 1..Len(t.emailResults[1]) : t.emailResults[1][k] = << >>
    THEN /\ workers' = [workers EXCEPT ![w] = t]
         /\ UNCHANGED <<index, results, claimLog, started, completed, produced, issued>>
    ELSE Return(w, t, DealContext(t.deal[1], stages, Clock.now, emailDays,
                                  t.contacts[1], t.activities[1],
                                  allEmails(t.emailResults[1])))

\* enrichDeal rejects: the worker's await throws, Promise.all rejects, and
\* so do runWithConcurrency and analyzeDealPipeline.
WorkerRejects(w, nowFailed) ==
    IF attempt < MaxAttempts
    THEN EnterPipeline
    ELSE /\ pc' = "failed"
         /\ calls' = {}
         /\ workers' = [workers EXCEPT ![w] = [@ EXCEPT !.st = "failed"]]
         /\ pool' = "rejected"
         /\ failed' = nowFailed
         /\ UNCHANGED <<attempt, stages, deals, returnValue, pipelineLog, limit, index, results,
                        returned, modelVars, claimLog, started, completed, produced, issued>>

\* The persons request of worker w's deal settles.
ContactsDone(w, ok) ==
    /\ w \in DOMAIN workers
    /\ workers[w].st = "busy"
    /\ workers[w].contacts = << >>
    /\ LET t        == workers[w]
           dealId   == OrElse(t.deal[1].id, 0)
           response == IF ok THEN Ok(getDealContacts(PersonsData(dealId))) ELSE Fail
           caught   == CatchContacts(response)
           nowFailed == IF ok THEN failed ELSE failed \cup {<<t.i, "contacts", 0>>}
       IN  IF caught.ok
           THEN /\ EnrichStep(w, [t EXCEPT !.contacts = <<caught.value>>])
                /\ failed' = nowFailed
                /\ UNCHANGED <<pipeVars, limit, pool, returned, modelVars>>
           ELSE WorkerRejects(w, nowFailed)

\* The activities request of worker w's deal settles.
ActivitiesDone(w, ok) ==
    /\ w \in DOMAIN workers
    /\ workers[w].st = "busy"
    /\ workers[w].activities = << >>
    /\ LET t        == workers[w]
           dealId   == OrElse(t.deal[1].id, 0)
           response == IF ok THEN Ok(getDealActivities(ActivitiesData(dealId))) ELSE Fail
           caught   == CatchActivities(response)
           nowFailed == IF ok THEN failed ELSE failed \cup {<<t.i, "activities", 0>>}
       IN  IF caught.ok
           THEN /\ EnrichStep(w, [t EXCEPT !.activities = <<caught.value>>])
                /\ failed' = nowFailed
                /\ UNCHANGED <<pipeVars, limit, pool, returned, modelVars>>
           ELSE WorkerRejects(w, nowFailed)

\* The searches worker record t has issued.
SearchesOf(t) == IF t.emailResults = << >> THEN {} ELSE DOMAIN t.emailResults[1]

\* searchEmails for the k-th contact with an email of worker w's deal settles.
SearchDone(w, k, ok) ==
    /\ w \in DOMAIN workers
    /\ workers[w].st = "busy"
    /\ k \in SearchesOf(workers[w])
    /\ workers[w].emailResults[1][k] = << >>
    /\ LET t        == workers[w]
           contact  == contactsWithEmail(t.contacts[1])[k]
           response == IF ok
                       THEN Ok(searchEmails(ListMessages(contact.email[1], maxEmails)))
                       ELSE Fail
       IN  /\ EnrichStep(w, [t EXCEPT !.emailResults =
                                <<SettleSearch(t.emailResults[1], k, response, contact)>>])
           /\ failed' = IF ok THEN failed ELSE failed \cup {<<t.i, "search", k>>}
           /\ UNCHANGED <<pipeVars, limit, pool, returned, modelVars>>

\* ------------------------------------------- runWithConcurrency resolves

\* Promise.all over the workers is fulfilled: runWithConcurrency returns
\* results, and analyzeDealPipeline sends the joined contexts to the model.
PoolResolve ==
    /\ pc = "enrich"
    /\ pool = "running"
    /\ AllWorkersDone(workers)
    /\ pool' = "resolved"
    /\ returned' = results
    /\ pc' = "analyze"
    /\ modelCalls' = modelCalls + 1
    /\ modelInput' = JoinContexts(results)
    /\ UNCHANGED <<attempt, calls, stages, deals, returnValue, pipelineLog, limit, index,
                   results, workers, histVars>>

\* analyzeDeals settles: the request rejected, or its response is normalized
\* and parsed.
ModelDone(response) ==
    /\ pc = "analyze"
    /\ LET analysis == analyzeDeals(response)
       IN  IF analysis.ok
           THEN /\ pc' = "done"
                /\ returnValue' = <<[dealsAnalyzed |-> Len(deals), analysis |-> analysis.value]>>
                /\ UNCHANGED <<attempt, calls, stages, deals, pipelineLog, poolVars, modelVars,
                               histVars>>
           ELSE RejectRun

Next ==
    \/ RunTask /\ UNCHANGED <<fnVars, procVars, mail, paging>>
    \/ \E c \in InitialCalls, ok \in BOOLEAN : CredentialCallDone(c, ok) /\ UNCHANGED <<fnVars, procVars, mail, paging>>
    \/ \E ok \in BOOLEAN : ValidateGmailDone(ok) /\ UNCHANGED <<fnVars, procVars, mail, paging>>
    \/ \E ok \in BOOLEAN : GetStagesMapDone(ok) /\ UNCHANGED <<fnVars, procVars, mail, paging>>
    \/ \E ok \in BOOLEAN, n \in 0..MaxDeals : GetOpenDealsDone(ok, n) /\ UNCHANGED <<fnVars, procVars, mail, paging>>
    \/ \E w \in DOMAIN workers, ok \in BOOLEAN : ContactsDone(w, ok) /\ UNCHANGED <<fnVars, procVars, mail, paging>>
    \/ \E w \in DOMAIN workers, ok \in BOOLEAN : ActivitiesDone(w, ok) /\ UNCHANGED <<fnVars, procVars, mail, paging>>
    \/ \E w \in DOMAIN workers, ok \in BOOLEAN :
          \E k \in SearchesOf(workers[w]) : SearchDone(w, k, ok) /\ UNCHANGED <<fnVars, procVars, mail, paging>>
    \/ PoolResolve /\ UNCHANGED <<fnVars, procVars, mail, paging>>
    \/ \E response \in ModelResponses(deals) : ModelDone(response) /\ UNCHANGED <<fnVars, procVars, mail, paging>>

Spec == Init /\ [][Next]_vars

\* ------------------------------------------------- analyzeDeals on its own
\* analyzeDeals applied to one response of messages.create, for every shape
\* of tool input built from lists of at most MaxEntries entries.

\* The entries the model may return: a ranked entry for each of MaxDeals deals.
ValidEntries == {Entry(100 + i, i) : i \in 1..MaxDeals}

\* Entries the schema refuses: a required field is missing, a value is
\* outside its enum, the element is not an object.
BrokenEntries ==
    LET e == Entry(101, 1).props[1]
    IN  { JObj([e EXCEPT !.deal_title = << >>]),
          JObj([e EXCEPT !.urgency = <<"soon">>]),
          JObj([e EXCEPT !.deal_health = <<"lukewarm">>]),
          JStr(<< >>) }

ListsOf(entries) == UNION {[1..n -> entries] : n \in 0..MaxEntries}

ValidLists == ListsOf(ValidEntries)

BrokenLists == ListsOf(ValidEntries \cup BrokenEntries) \ ValidLists

\* The parsed shapes of a list D: wrapped, the bare array, and the single
\* object when D has one entry.
ParsedShapes(D) ==
    {Wrapped(D), JArr(D)} \cup (IF Len(D) = 1 THEN {D[1]} ELSE {})

\* The tool input, or its deals field, is the JSON text of payload p.
StringShapes(p) == {Stringify(p), WrappedString(Stringify(p))}

ToolInputs ==
    UNION {ParsedShapes(D) : D \in ValidLists \cup BrokenLists}
    \cup UNION {StringShapes(p) : p \in UNION {ParsedShapes(D) : D \in ValidLists}}
    \cup {NotJson, WrappedString(NotJson)}

\* The outcomes of messages.create that analyzeDeals is applied to.
Responses ==
    {Fail, Ok(<< >>), Ok(<<TextBlock>>)}
    \cup {Ok(<<ToolUse(p)>>) : p \in ToolInputs}
    \cup {Ok(<<TextBlock, ToolUse(Wrapped(D))>>) : D \in ValidLists}

NormalizeInit ==
    /\ PipelineIdle
    /\ ProcessStarted
    /\ limit = CONCURRENCY
    /\ fnInput \in {<<r>> : r \in Responses}
    /\ fnOutput = << >>

\* analyzeDeals runs from the settled request to its return or throw.
ApplyAnalyzeDeals ==
    /\ fnInput # << >>
    /\ fnOutput = << >>
    /\ fnOutput' = <<analyzeDeals(fnInput[1])>>
    /\ UNCHANGED <<fnInput, pipeVars, poolVars, modelVars, histVars, procVars, mail, paging>>

NormalizeNext == ApplyAnalyzeDeals

NormalizeSpec == NormalizeInit /\ [][NormalizeNext]_vars

\* ---------------------------------------------- getDealContacts on its own
\* getDealContacts applied to one response of the persons request.

EmailEntries ==
    {[value |-> v, primary |-> b] : v \in {<< >>, <<"">>, <<"a@x">>, <<"b@x">>}, b \in BOOLEAN}

\* person.emails: absent, or a list of entries.
EmailFields ==
    {<< >>} \cup {<<l>> : l \in UNION {[1..n -> EmailEntries] : n \in 0..MaxEmailEntries}}

\* One person with every shape of emails.
OnePerson == {<<[id |-> <<11>>, name |-> <<"Ann">>, emails |-> e]>> : e \in EmailFields}

\* Persons as the source lists them for a deal: with or without an id, the
\* same person possibly more than once.
ListedPersons ==
    {[id |-> i, name |-> n, emails |-> e] :
        i \in {<< >>, <<11>>, <<12>>}, n \in {<<"Ann">>},
        e \in {<< >>, << <<[value |-> <<"a@x">>, primary |-> TRUE]>> >>}}

\* response.data of getPersons: absent, or a list of persons.
PersonsResponses ==
    {<< >>} \cup {<<l>> : l \in OnePerson \cup UNION {[1..n -> ListedPersons] : n \in 0..MaxPersons}}

ContactsInit ==
    /\ PipelineIdle
    /\ ProcessStarted
    /\ limit = CONCURRENCY
    /\ fnInput \in {<<data>> : data \in PersonsResponses}
    /\ fnOutput = << >>

\* getDealContacts runs from the settled persons request to its return.
ApplyGetDealContacts ==
    /\ fnInput # << >>
    /\ fnOutput = << >>
    /\ fnOutput' = <<getDealContacts(fnInput[1])>>
    /\ UNCHANGED <<fnInput, pipeVars, poolVars, modelVars, histVars, procVars, mail, paging>>

ContactsNext == ApplyGetDealContacts

ContactsSpec == ContactsInit /\ [][ContactsNext]_vars

\* ------------------------------------------------- searchEmails on its own
\* searchEmails applied to one mailbox and one maxResults.

MessagePool == {MailOf("ann@x")[1], MailOf("ann@x")[2], MailOf("bob@x")[1]}

\* The messages matching the query, newest first.
Mailboxes == UNION {[1..n -> MessagePool] : n \in 0..MaxMessages}

SearchInit ==
    /\ PipelineIdle
    /\ ProcessStarted
    /\ limit = CONCURRENCY
    /\ fnInput \in {<<[mailbox |-> m, maxResults |-> r]>> : m \in Mailboxes, r \in 1..MaxResults}
    /\ fnOutput = << >>

\* searchEmails runs from its call to its return: the list request, then
\* the detail requests.
ApplySearchEmails ==
    /\ fnInput # << >>
    /\ fnOutput = << >>
    /\ fnOutput' = <<searchEmails(ListCapped(fnInput[1].mailbox, fnInput[1].maxResults))>>
    /\ UNCHANGED <<fnInput, pipeVars, poolVars, modelVars, histVars, procVars, mail, paging>>

SearchNext == ApplySearchEmails

SearchSpec == SearchInit /\ [][SearchNext]_vars

\* ---- printDealAnalysis alone

healthIcon(health) ==
    CASE health = "hot" -> "!!!"
      [] health = "warm" -> "!! "
      [] health = "cold" -> "!  "
      [] health = "at_risk" -> "!!!"
      [] OTHER -> "   "

urgencyLabel(urgency) ==
    CASE urgency = "immediate" -> "NOW"
      [] urgency = "this_week" -> "THIS WEEK"
      [] urgency = "next_week" -> "NEXT WEEK"
      [] urgency = "no_rush" -> "LOW"
      [] OTHER -> urgency

\* What the loop body prints for one deal, line group by line group; the
\* signals and the history are printed only when they are not empty.
PrintedDeal(deal) ==
    [heading |-> <<"#", deal.priority_rank, healthIcon(deal.deal_health), deal.deal_title>>,
     url |-> <<"https://acme.pipedrive.com/deal", "/", deal.deal_id>>,
     health |-> deal.deal_health,
     urgency |-> urgencyLabel(deal.urgency),
     actions |-> deal.recommended_actions,
     why |-> deal.reasoning,
     signals |-> IF Len(deal.key_signals) > 0 THEN <<deal.key_signals>> ELSE << >>,
     history |-> IF Len(deal.deal_history) > 0 THEN <<deal.deal_history>> ELSE << >>]

\* A sort that places an element before the elements of equal rank.
InsertBeforeTies(deal, sorted) ==
    SelectSeq(sorted, LAMBDA x : x.priority_rank < deal.priority_rank)
        \o <<deal>>
        \o SelectSeq(sorted, LAMBDA x : x.priority_rank >= deal.priority_rank)

\* Array.prototype.sort with (a, b) => a.priority_rank - b.priority_rank is
\* stable: an element goes after the elements that compare lower or equal.
InsertByRank(deal, sorted) ==
    SelectSeq(sorted, LAMBDA x : x.priority_rank <= deal.priority_rank)
        \o <<deal>>
        \o SelectSeq(sorted, LAMBDA x : x.priority_rank > deal.priority_rank)

RECURSIVE SortByRank(_)
SortByRank(list) ==
    IF Len(list) = 0
    THEN << >>
    ELSE InsertByRank(list[Len(list)], SortByRank(SubSeq(list, 1, Len(list) - 1)))

printDealAnalysis(result) ==
    LET sorted == SortByRank(result.analysis.deals)
    IN  [k \in 1..Len(sorted) |-> PrintedDeal(sorted[k])]

\* The entries of a validated analysis: any deal id with any rank, so that
\* ranks repeat and arrive out of order.
AnalysisResults ==
    LET RankedDeals == {ParsedEntry(Entry(100 + i, r)) : i \in 1..MaxDeals, r \in 1..MaxLimit}
    IN  {[dealsAnalyzed |-> Len(D), analysis |-> [deals |-> D]] :
            D \in UNION {[1..n -> RankedDeals] : n \in 0..MaxPrinted}}

PrintInit ==
    /\ PipelineIdle
    /\ ProcessStarted
    /\ limit = CONCURRENCY
    /\ fnInput \in {<<r>> : r \in AnalysisResults}
    /\ fnOutput = << >>

ApplyPrintDealAnalysis ==
    /\ fnInput # << >>
    /\ fnOutput = << >>
    /\ fnOutput' = <<printDealAnalysis(fnInput[1])>>
    /\ UNCHANGED <<fnInput, pipeVars, poolVars, modelVars, histVars, procVars, mail, paging>>

PrintSpec == PrintInit /\ [][ApplyPrintDealAnalysis]_vars

\* ---- the invoking surfaces
\* analyzeDealPipeline run by the CLI's analyze command or by the task, with
\* a valid or an invalid environment, one deal at a time.

\* An environment reader that ends the process when the environment is invalid.
getEnvExits(valid) ==
    IF valid
    THEN [thrown |-> FALSE, exit |-> << >>]
    ELSE [thrown |-> FALSE, exit |-> <<1>>]

\* EnvSchema.safeParse(process.env): the parsed environment, or a thrown Error.
getEnv(valid) ==
    IF valid
    THEN [thrown |-> FALSE, exit |-> << >>]
    ELSE [thrown |-> TRUE, exit |-> << >>]

\* The CRM client's configuration reads the API token from getEnv().
createConfig(valid) == getEnv(valid)

SurfaceInit ==
    /\ PipelineIdle
    /\ limit = 1
    /\ fnInput = << >>
    /\ fnOutput = << >>
    /\ surface \in {"cli", "task"}
    /\ envOk \in BOOLEAN
    /\ exitCode = << >>
    /\ mail = << >>
    /\ paging = << >>

\* The surface calls analyzeDealPipeline.
Invoke ==
    /\ pc = "idle"
    /\ EnterPipeline

\* validateCredentials() builds its configuration from an invalid
\* environment: the call rejects, or the process ends where the reader exits.
ConfigRejected ==
    /\ pc = "validate"
    /\ "validateCredentials" \in calls
    /\ ~envOk
    /\ LET env == createConfig(envOk)
       IN  IF env.exit # << >>
           THEN /\ exitCode' = env.exit
                /\ UNCHANGED <<surface, envOk, pipeVars, poolVars, modelVars, histVars>>
           ELSE /\ RejectRun
                /\ UNCHANGED procVars

\* The analyze command's catch: the error is printed and process.exit(1).
CliCatch ==
    /\ surface = "cli"
    /\ pc = "failed"
    /\ exitCode' = <<1>>
    /\ UNCHANGED <<surface, envOk, pipeVars, poolVars, modelVars, histVars>>

\* Nothing runs in a process that has exited.
SurfaceNext ==
    \/ exitCode = << >> /\ Invoke /\ UNCHANGED <<fnVars, procVars, mail, paging>>
    \/ exitCode = << >> /\ ConfigRejected /\ UNCHANGED <<fnVars, mail, paging>>
    \/ \E c \in InitialCalls, ok \in BOOLEAN :
          /\ exitCode = << >>
          /\ c = "validateCredentials" => envOk
          /\ CredentialCallDone(c, ok)
          /\ UNCHANGED <<fnVars, procVars, mail, paging>>
    \/ \E ok \in BOOLEAN : exitCode = << >> /\ ValidateGmailDone(ok) /\ UNCHANGED <<fnVars, procVars, mail, paging>>
    \/ \E ok \in BOOLEAN : exitCode = << >> /\ GetStagesMapDone(ok) /\ UNCHANGED <<fnVars, procVars, mail, paging>>
    \/ \E ok \in BOOLEAN, n \in 0..MaxDeals :
          exitCode = << >> /\ GetOpenDealsDone(ok, n) /\ UNCHANGED <<fnVars, procVars, mail, paging>>
    \/ \E w \in DOMAIN workers, ok \in BOOLEAN :
          exitCode = << >> /\ ContactsDone(w, ok) /\ UNCHANGED <<fnVars, procVars, mail, paging>>
    \/ \E w \in DOMAIN workers, ok \in BOOLEAN :
          exitCode = << >> /\ ActivitiesDone(w, ok) /\ UNCHANGED <<fnVars, procVars, mail, paging>>
    \/ \E w \in DOMAIN workers, ok \in BOOLEAN :
          \E k \in SearchesOf(workers[w]) :
             exitCode = << >> /\ SearchDone(w, k, ok) /\ UNCHANGED <<fnVars, procVars, mail, paging>>
    \/ exitCode = << >> /\ PoolResolve /\ UNCHANGED <<fnVars, procVars, mail, paging>>
    \/ \E response \in ModelResponses(deals) :
          exitCode = << >> /\ ModelDone(response) /\ UNCHANGED <<fnVars, procVars, mail, paging>>
    \/ exitCode = << >> /\ CliCatch /\ UNCHANGED <<fnVars, mail, paging>>

SurfaceSpec == SurfaceInit /\ [][SurfaceNext]_vars

\* ---- the mailbox searches of one deal, request by request
\* Promise.all(contactsWithEmail.map(...)) of enrichDeal with searchEmails
\* taken apart: each search is a list request followed by one detail request
\* per listed message, and all of them settle in any order.

\* The values in the order the detail requests completed.
CollectByArrival(slots, arrivals) ==
    [k \in 1..Len(slots) |-> slots[arrivals[k]][1].value]

\* Promise.all resolves with the values in the order of its promises, which
\* is the order of messages.map(...).
CollectDetails(slots, arrivals) ==
    [k \in 1..Len(slots) |-> slots[k][1].value]

\* A combinator that waits for every promise and keeps the fulfilled values.
PromiseAllSettled(slots, arrivals) ==
    IF \A k \in 1..Len(slots) : slots[k] # << >>
    THEN <<Ok(LET kept == SelectSeq(slots, LAMBDA s : s[1].ok)
              IN  [k \in 1..Len(kept) |-> kept[k][1].value])>>
    ELSE << >>

\* Promise.all(messages.map(...)): rejected as soon as one detail request is
\* rejected, fulfilled once all are fulfilled, pending otherwise.
PromiseAll(slots, arrivals) ==
    IF \E k \in 1..Len(slots) : slots[k] # << >> /\ ~slots[k][1].ok
    THEN <<Fail>>
    ELSE IF \A k \in 1..Len(slots) : slots[k] # << >>
    THEN <<Ok(CollectDetails(slots, arrivals))>>
    ELSE << >>

\* enrichDeal has called searchEmails for every contact with an email; each
\* search awaits its list request.
SearchesCalled(withEmail) ==
    [contacts |-> withEmail,
     searches |-> [k \in 1..Len(withEmail) |->
                     [list |-> << >>, messages |-> << >>, slots |-> << >>,
                      arrivals |-> << >>, outcome |-> << >>]],
     settled |-> << >>,
     emailResults |-> PendingSearches(withEmail),
     allEmails |-> << >>]

\* The search of contact c has become s.  When s has an outcome the map
\* callback's try/catch settles the contact's slot, and once every slot is
\* settled enrichDeal flattens them.
SearchStep(run, c, s) ==
    LET was == run.searches[c].outcome
        emailResults == IF was = << >> /\ s.outcome # << >>
                        THEN SettleSearch(run.emailResults, c, s.outcome[1], run.contacts[c])
                        ELSE run.emailResults
    IN  [run EXCEPT !.searches[c] = s,
                    !.settled = IF was = << >> /\ s.outcome # << >> THEN Append(@, c) ELSE @,
                    !.emailResults = emailResults,
                    !.allEmails = IF \A k \in 1..Len(emailResults) : emailResults[k] # << >>
                                  THEN <<allEmails(emailResults)>>
                                  ELSE << >>]

\* The contacts with an email that the CRM holds.
ContactLists ==
    LET all == contactsWithEmail(getDealContacts(PersonsData(101))
                                 \o getDealContacts(PersonsData(102)))
        SearchableContacts == {all[k] : k \in 1..Len(all)}
    IN  {cs \in UNION {[1..n -> SearchableContacts] : n \in 1..MaxPersons} :
            \A a, b \in 1..Len(cs) : cs[a] = cs[b] => a = b}

MailInit ==
    /\ PipelineIdle
    /\ surface = "task"
    /\ envOk = TRUE
    /\ exitCode = << >>
    /\ paging = << >>
    /\ limit = 1
    /\ fnInput = << >>
    /\ fnOutput = << >>
    /\ mail \in {<<SearchesCalled(cs)>> : cs \in ContactLists}

\* gmail.users.messages.list of contact c's search settles; the detail
\* requests of the listed messages are issued.
ListDone(c, ok) ==
    /\ mail # << >>
    /\ c \in 1..Len(mail[1].contacts)
    /\ mail[1].searches[c].list = << >>
    /\ LET messages == IF ok
                       THEN ListMessages(mail[1].contacts[c].email[1], maxEmails)
                       ELSE << >>
           slots == [k \in 1..Len(messages) |-> << >>]
           s == [list |-> <<ok>>, messages |-> messages, slots |-> slots, arrivals |-> << >>,
                 outcome |-> IF ok THEN PromiseAll(slots, << >>) ELSE <<Fail>>]
       IN  mail' = <<SearchStep(mail[1], c, s)>>
    /\ UNCHANGED <<pipeVars, poolVars, modelVars, fnVars, histVars, procVars, paging>>

\* gmail.users.messages.get for the m-th listed message of contact c settles.
DetailDone(c, m, ok) ==
    /\ mail # << >>
    /\ c \in 1..Len(mail[1].contacts)
    /\ m \in 1..Len(mail[1].searches[c].slots)
    /\ mail[1].searches[c].slots[m] = << >>
    /\ LET was == mail[1].searches[c]
           detail == IF ok THEN Ok(searchEmails(<<was.messages[m]>>)[1]) ELSE Fail
           slots == [was.slots EXCEPT ![m] = <<detail>>]
           arrivals == Append(was.arrivals, m)
           s == [was EXCEPT !.slots = slots, !.arrivals = arrivals,
                            !.outcome = PromiseAll(slots, arrivals)]
       IN  mail' = <<SearchStep(mail[1], c, s)>>
    /\ UNCHANGED <<pipeVars, poolVars, modelVars, fnVars, histVars, procVars, paging>>

MailNext ==
    \/ \E c \in 1..MaxPersons, ok \in BOOLEAN : ListDone(c, ok)
    \/ \E c \in 1..MaxPersons, m \in 1..MaxMessages, ok \in BOOLEAN : DetailDone(c, m, ok)

MailSpec == MailInit /\ [][MailNext]_vars

\* ---- getOpenDeals page by page

\* Every request asks for the whole limit.
PageLimitWhole(wanted, fetched) == Min(wanted, PageCap)

\* limit: Math.min(limit - allDeals.length, 100)
PageLimit(wanted, fetched) == Min(wanted - fetched, PageCap)

\* getOpenDeals(ownerId, wanted) up to its first await: the first page is
\* requested without a cursor.  total is the number of open deals the
\* source holds.
ListingCalled(wanted, total) ==
    [limit |-> wanted,
     source |-> [i \in 1..total |-> DealItem(i)],
     allDeals |-> << >>,
     cursor |-> << >>,
     requests |-> <<[asked |-> PageLimit(wanted, 0), fetched |-> 0, cursor |-> << >>]>>,
     st |-> "awaiting",
     value |-> << >>]

\* allDeals.slice(0, limit)
SliceToLimit(allDeals, wanted) == SubSeq(allDeals, 1, Min(Len(allDeals), wanted))

\* A page of size deals arrives: the loop body after the await, the loop
\* test, and either the next request or the return.
AfterPage(run, size) ==
    LET from == IF run.cursor = << >> THEN 1 ELSE run.cursor[1]
        allDeals == run.allDeals \o SubSeq(run.source, from, from + size - 1)
        cursor == IF from + size <= Len(run.source) THEN <<from + size>> ELSE << >>
    IN  IF cursor # << >> /\ Len(allDeals) < run.limit
        THEN [run EXCEPT !.allDeals = allDeals,
                         !.cursor = cursor,
                         !.requests = Append(@, [asked |-> PageLimit(run.limit, Len(allDeals)),
                                                 fetched |-> Len(allDeals),
                                                 cursor |-> cursor])]
        ELSE [run EXCEPT !.allDeals = allDeals,
                         !.cursor = cursor,
                         !.st = "returned",
                         !.value = SliceToLimit(allDeals, run.limit)]

PagingInit ==
    /\ PipelineIdle
    /\ surface = "task"
    /\ envOk = TRUE
    /\ exitCode = << >>
    /\ mail = << >>
    /\ limit = 1
    /\ fnInput = << >>
    /\ fnOutput = << >>
    /\ paging \in {<<ListingCalled(wanted, total)>> :
                      wanted \in 1..MaxDeals + 2, total \in 0..MaxDeals + 2}

\* dealsApi.getDeals settles with a page of size deals, at most as many as
\* were asked for and as the source still holds, and at least one when it
\* holds any.
PageDone(size) ==
    /\ paging # << >>
    /\ paging[1].st = "awaiting"
    /\ LET run == paging[1]
           from == IF run.cursor = << >> THEN 1 ELSE run.cursor[1]
           left == Len(run.source) - from + 1
           asked == run.requests[Len(run.requests)].asked
       IN  /\ size <= Min(asked, left)
           /\ left > 0 => size > 0
           /\ paging' = <<AfterPage(run, size)>>
    /\ UNCHANGED <<pipeVars, poolVars, modelVars, fnVars, procVars, mail, histVars>>

\* dealsApi.getDeals rejects, and getOpenDeals with it.
PageFailed ==
    /\ paging # << >>
    /\ paging[1].st = "awaiting"
    /\ paging' = <<[paging[1] EXCEPT !.st = "rejected"]>>
    /\ UNCHANGED <<pipeVars, poolVars, modelVars, fnVars, procVars, mail, histVars>>

PagingNext ==
    \/ \E size \in 0..PageCap : PageDone(size)
    \/ PageFailed

PagingSpec == PagingInit /\ [][PagingNext]_vars

\* ---- the enrichment under fair scheduling
\* analyzeDealPipeline from its call of runWithConcurrency to the model
\* request.  Every request that is in flight eventually settles, and a
\* continuation that can run eventually runs.

\* analyzeDealPipeline has fetched the stages and 1..MaxLimit deals and has called
\* runWithConcurrency(deals, limit, enrichDeal): the workers are started.
EnrichInit ==
    /\ pc = "enrich"
    /\ attempt = 1
    /\ calls = {}
    /\ stages = StagesMap
    /\ returnValue = << >>
    /\ pipelineLog = {}
    /\ limit \in 1..MaxLimit
    /\ deals \in {[i \in 1..n |-> DealItem(i)] : n \in 1..MaxLimit}
    /\ LET m  == PoolSize(limit, Len(deals))
           ps == Spawn([index |-> 0, workers |-> [w \in 1..m |-> DoneWorker],
                        claimLog |-> << >>, started |-> {}, issued |-> {}],
                       1, m, deals)
       IN  /\ index = ps.index
           /\ workers = ps.workers
           /\ claimLog = ps.claimLog
           /\ started = ps.started
           /\ issued = ps.issued
    /\ results = [i \in 1..Len(deals) |-> << >>]
    /\ pool = "running"
    /\ returned = << >>
    /\ modelCalls = 0
    /\ modelInput = << >>
    /\ completed = {}
    /\ produced = {}
    /\ failed = {}
    /\ fnInput = << >>
    /\ fnOutput = << >>
    /\ surface = "task"
    /\ envOk = TRUE
    /\ exitCode = << >>
    /\ mail = << >>
    /\ paging = << >>

\* A request of worker w's enrichDeal settles.
WorkerCallSettles(w) ==
    /\ w \in DOMAIN workers
    /\ \E ok \in BOOLEAN :
          \/ ContactsDone(w, ok)
          \/ ActivitiesDone(w, ok)
          \/ \E k \in SearchesOf(workers[w]) : SearchDone(w, k, ok)
    /\ UNCHANGED <<fnVars, procVars, mail, paging>>

EnrichNext ==
    \/ \E w \in 1..MaxLimit : WorkerCallSettles(w)
    \/ PoolResolve /\ UNCHANGED <<fnVars, procVars, mail, paging>>

FairSpec ==
    /\ EnrichInit
    /\ [][EnrichNext]_vars
    /\ \A w \in 1..MaxLimit : WF_vars(WorkerCallSettles(w))
    /\ WF_vars(PoolResolve /\ UNCHANGED <<fnVars, procVars, mail, paging>>)

\* ---- the sequential pipeline
\* The earlier analyzeDealPipeline: one deal after another, and within a deal
\* one request after another.  rejected holds the requests that fail, as
\* <<deal index, kind, number of the deal's search>>, so that both pipelines
\* can be given the same responses.

\* let x = []; try { x = await request } catch { }
SeqCatch(outcome) == IF outcome.ok THEN outcome.value ELSE << >>

\* if (!contact.email) continue
SeqSkipped(c) == c.email = << >> \/ c.email[1] = ""

\* for (const contact of contacts) { ... }: from the k-th contact on, after n
\* searches; a failed search is skipped and the loop goes on.
RECURSIVE SeqEmailLoop(_, _, _, _, _)
SeqEmailLoop(contacts, k, n, i, rejected) ==
    IF k > Len(contacts)
    THEN << >>
    ELSE IF SeqSkipped(contacts[k])
    THEN SeqEmailLoop(contacts, k + 1, n, i, rejected)
    ELSE LET outcome == IF <<i, "search", n + 1>> \in rejected
                        THEN Fail
                        ELSE Ok(searchEmails(ListMessages(contacts[k].email[1], maxEmails)))
             pushed == IF outcome.ok THEN TagEmails(outcome.value, contacts[k]) ELSE << >>
         IN  pushed \o SeqEmailLoop(contacts, k + 1, n + 1, i, rejected)

\* let emailSummary = "No email communication found."; if (allEmails.length > 0) ...
SeqEmailSummary(emails) ==
    IF Len(emails) > 0
    THEN Join([k \in 1..Len(emails) |-> EmailLine(emails[k])], <<"\n">>)
    ELSE NoEmailSentence

\* One pass of for (const deal of deals): the context pushed for the deal
\* at index i.  The template and the two lists are written as in enrichDeal.
SeqDealContext(deal, i, stageNames, now, days, rejected) ==
    LET dealId == OrElse(deal.id, 0)
        contacts == SeqCatch(IF <<i, "contacts", 0>> \in rejected
                             THEN Fail
                             ELSE Ok(getDealContacts(PersonsData(dealId))))
        activities == SeqCatch(IF <<i, "activities", 0>> \in rejected
                               THEN Fail
                               ELSE Ok(getDealActivities(ActivitiesData(dealId))))
    IN  [header     |-> DealHeader(deal, stageNames, now),
         contacts   |-> contactsList(contacts),
         activities |-> activityList(activities),
         emailDays  |-> days,
         emails     |-> SeqEmailSummary(SeqEmailLoop(contacts, 1, 0, i, rejected))]

\* dealContexts after the loop, and dealContexts.join("\n\n").
SeqDealContexts(items, stageNames, now, days, rejected) ==
    [k \in 1..Len(items) |-> SeqDealContext(items[k], k - 1, stageNames, now, days, rejected)]

SeqModelInput(dealContexts) ==
    Join([k \in 1..Len(dealContexts) |-> Render(dealContexts[k])], <<"\n\n">>)

\* ---- runWithConcurrency with a per-item function that may reject

\* A rejection that stops every worker still awaiting its item.
WorkersCancelled(ws, w) ==
    [v \in DOMAIN ws |-> IF ws[v].st = "busy" THEN [ws[v] EXCEPT !.st = "failed"] ELSE ws[v]]

\* The await in worker w throws: its loop ends and its promise is rejected.
\* Promise.all has no hold on the other workers.
WorkersAfterRejection(ws, w) == [ws EXCEPT ![w] = [@ EXCEPT !.st = "failed"]]

\* runWithConcurrency(items, limit, fn) up to its await: the workers are
\* started and each has claimed an index when there was one.
RunInit ==
    /\ pc = "idle"
    /\ attempt = 0
    /\ calls = {}
    /\ stages = StagesMap
    /\ returnValue = << >>
    /\ pipelineLog = {}
    /\ limit \in (1..MaxLimit) \cup {CONCURRENCY}
    /\ deals \in {[i \in 1..n |-> DealItem(i)] : n \in 0..MaxDeals}
    /\ LET m  == PoolSize(limit, Len(deals))
           ps == Spawn([index |-> 0, workers |-> [w \in 1..m |-> DoneWorker],
                        claimLog |-> << >>, started |-> {}, issued |-> {}],
                       1, m, deals)
       IN  /\ index = ps.index
           /\ workers = ps.workers
           /\ claimLog = ps.claimLog
           /\ started = ps.started
           /\ issued = ps.issued
    /\ results = [i \in 1..Len(deals) |-> << >>]
    /\ pool = "running"
    /\ returned = << >>
    /\ modelCalls = 0
    /\ modelInput = << >>
    /\ completed = {}
    /\ produced = {}
    /\ failed = {}
    /\ fnInput = << >>
    /\ fnOutput = << >>
    /\ surface = "task"
    /\ envOk = TRUE
    /\ exitCode = << >>
    /\ mail = << >>
    /\ paging = << >>

\* fn(items[i]) of worker w settles.  Fulfilled: the worker stores the value
\* and goes round its loop.  Rejected: the worker ends, and runWithConcurrency
\* rejects with this error unless it has rejected already; failed records the
\* index and where the cursor stood.
FnDone(w, ok) ==
    /\ w \in DOMAIN workers
    /\ workers[w].st = "busy"
    /\ LET t == workers[w]
       IN  IF ok
           THEN /\ Return(w, t, DealContext(t.deal[1], stages, Clock.now, emailDays,
                                            << >>, << >>, << >>))
                /\ UNCHANGED <<pool, failed, fnOutput>>
           ELSE /\ workers' = WorkersAfterRejection(workers, w)
                /\ pool' = "rejected"
                /\ fnOutput' = IF pool = "running"
                               THEN <<[ok |-> FALSE, value |-> <<t.i>>]>>
                               ELSE fnOutput
                /\ failed' = failed \cup {<<t.i, "fn", index>>}
                /\ UNCHANGED <<index, results, claimLog, started, completed, produced, issued>>
    /\ UNCHANGED <<pipeVars, limit, returned, modelVars, fnInput, procVars, mail, paging>>

\* Promise.all over the workers is fulfilled: runWithConcurrency returns results.
RunResolve ==
    /\ pool = "running"
    /\ AllWorkersDone(workers)
    /\ pool' = "resolved"
    /\ returned' = results
    /\ fnOutput' = <<Ok(results)>>
    /\ UNCHANGED <<pipeVars, limit, index, results, workers, modelVars, fnInput, procVars,
                   mail, paging, histVars>>

RunNext ==
    \/ \E w \in DOMAIN workers, ok \in BOOLEAN : FnDone(w, ok)
    \/ RunResolve

RunSpec == RunInit /\ [][RunNext]_vars

\* ----------------------------------------------------------------- claims
\* Indexes are the code's: 0 .. items.length - 1.

Slots == 0..(Len(deals) - 1)

InFlight == started \ completed

ClaimsOf(w) == {k \in DOMAIN claimLog : claimLog[k][1] = w}

\* What the sources hold for the deal at index i, and which of its fetches
\* the history records as rejected.
ContactsFailed(i) == <<i, "contacts", 0>> \in failed

ActivitiesFailed(i) == <<i, "activities", 0>> \in failed

SearchFailed(i, k) == <<i, "search", k>> \in failed

SourceContacts(i) == getDealContacts(PersonsData(OrElse(deals[i + 1].id, 0)))

SourceActivities(i) == getDealActivities(ActivitiesData(OrElse(deals[i + 1].id, 0)))

FetchedContacts(i) == IF ContactsFailed(i) THEN << >> ELSE SourceContacts(i)

FetchedActivities(i) == IF ActivitiesFailed(i) THEN << >> ELSE SourceActivities(i)

\* The messages the mailbox lists for the k-th contact with an email.
SourceMessages(i, k) ==
    ListMessages(contactsWithEmail(SourceContacts(i))[k].email[1], maxEmails)

\* The records fetched for the deal at index i, contact after contact.
FetchedRecords(i) ==
    LET withEmail == contactsWithEmail(FetchedContacts(i))
    IN  Flat([k \in 1..Len(withEmail) |->
                 IF SearchFailed(i, k) THEN << >> ELSE SourceMessages(i, k)])

\* line occurs in block as a run of consecutive tokens.
Occurs(line, block) ==
    \E o \in 0..(Len(block) - Len(line)) :
        \A k \in 1..Len(line) : block[o + k] = line[k]

\* C1 Order preservation: when runWithConcurrency resolves, the list it
\* returns has one entry per input deal, and the entry at index i is the
\* context enrichDeal produced for the deal at index i of the input,
\* whatever the pool size, the completion order and the failed fetches.
C1_OrderPreserved ==
    pool = "resolved" =>
        /\ Len(returned) = Len(deals)
        /\ \A i \in Slots :
              /\ returned[i + 1] # << >>
              /\ \E p \in produced : p.deal = deals[i + 1] /\ p.ctx = returned[i + 1][1]
              /\ \A p \in produced : p.ctx = returned[i + 1][1] => p.deal = deals[i + 1]

\* Three deals on two workers: worker 2 finished the deal at index 1 and
\* claimed index 2 while worker 1 was still on index 0, and a fetch failed.
C1_Witness ==
    /\ pool = "resolved"
    /\ Len(deals) = 3
    /\ claimLog = << <<1, 0>>, <<2, 1>>, <<2, 2>> >>
    /\ failed # {}

\* C2 Concurrency bound: the enrichDeal calls started and not yet completed
\* never number more than min(limit, n); a worker has at most one of them,
\* and every index it claimed before its latest claim has completed.
C2_ConcurrencyBound ==
    /\ Cardinality(InFlight) <= Min(limit, Len(deals))
    /\ Cardinality(InFlight) <= limit
    /\ \A w \in DOMAIN workers :
          /\ Cardinality({k \in ClaimsOf(w) : claimLog[k][2] \in InFlight}) <= 1
          /\ \A a, b \in ClaimsOf(w) : a < b => claimLog[a][2] \in completed

\* The pool is full, smaller than the deal list, and a worker is on its
\* second deal.
C2_Witness ==
    /\ limit < Len(deals)
    /\ Cardinality(InFlight) = limit
    /\ \E w \in DOMAIN workers : Cardinality(ClaimsOf(w)) = 2 /\ workers[w].st = "busy"

\* C3 Exactly-once claiming: the claims made so far are the indexes
\* 0, 1, ..., index - 1, each once and in this order, one per advance of the
\* cursor; the cursor never passes n, and when the pool resolves every index
\* has been claimed.
C3_ClaimedExactlyOnce ==
    /\ index = Len(claimLog)
    /\ index <= Len(deals)
    /\ \A k \in DOMAIN claimLog :
          /\ claimLog[k][2] = k - 1
          /\ claimLog[k][1] \in DOMAIN workers
    /\ started = {claimLog[k][2] : k \in DOMAIN claimLog}
    /\ pool = "resolved" => index = Len(deals)

\* Both workers of a pool of two claimed, one of them twice.
C3_Witness ==
    /\ pool = "resolved"
    /\ Len(deals) = 3
    /\ limit = 2
    /\ Cardinality(ClaimsOf(1)) = 2
    /\ Cardinality(ClaimsOf(2)) = 1

\* C4 No partial result: when runWithConcurrency resolves, every deal's
\* enrichment has completed, every worker has left its loop, and the list
\* has exactly n entries, none of them unset.
C4_NoPartialResult ==
    pool = "resolved" =>
        /\ completed = Slots
        /\ \A w \in DOMAIN workers : workers[w].st = "done"
        /\ Len(returned) = Len(deals)
        /\ \A i \in DOMAIN returned : returned[i] # << >>

\* Fewer deals than the pool has room for.
C4_Witness ==
    /\ pool = "resolved"
    /\ Len(deals) = 2
    /\ limit = CONCURRENCY
    /\ Len(returned) = 2

\* The context of the deal at index j as its own source data and its own
\* failed fetches determine it.
OwnContext(j) ==
    LET withEmail == contactsWithEmail(FetchedContacts(j))
    IN  DealContext(deals[j + 1], StagesMap, Clock.now, emailDays,
                    FetchedContacts(j), FetchedActivities(j),
                    Flat([k \in 1..Len(withEmail) |->
                             IF SearchFailed(j, k) THEN << >>
                             ELSE TagEmails(searchEmails(SourceMessages(j, k)),
                                            withEmail[k])]))

\* C5 Isolation: the context stored for a deal is a function of that deal's
\* own data and own failures, so the failures of another deal do not change
\* it; and no failed fetch makes a worker, or runWithConcurrency, reject.
C5_Isolation ==
    /\ \A j \in completed : results[j + 1] = <<OwnContext(j)>>
    /\ pool # "rejected"
    /\ \A w \in DOMAIN workers : workers[w].st # "failed"

\* The coordinator resolved although every kind of fetch failed for the deal
\* at index 0, and the deal at index 1, none of whose fetches failed, has
\* its undegraded context.
C5_Witness ==
    /\ pool = "resolved"
    /\ Len(deals) >= 2
    /\ <<0, "contacts", 0>> \in failed
    /\ <<0, "activities", 0>> \in failed
    /\ \A f \in failed : f[1] = 0
    /\ returned[2] = <<OwnContext(1)>>

\* The searches issued for the deal at index i.
SearchesIssued(i) == {k \in 1..Len(SourceContacts(i)) : <<i, "search", k>> \in issued}

\* C6 Local recovery of the CRM fetches: a failed contacts fetch leaves the
\* deal with the contact list "None", no mailbox search and the activities
\* that were fetched; a failed activities fetch leaves it with the activity
\* list "None", the contacts that were fetched and a search for each contact
\* with an email.  In both cases enrichDeal returns: no worker fails.
C6_LocalRecovery ==
    /\ \A w \in DOMAIN workers : workers[w].st # "failed"
    /\ \A i \in started : ContactsFailed(i) => SearchesIssued(i) = {}
    /\ \A i \in completed :
          LET ctx == results[i + 1][1]
          IN  /\ ContactsFailed(i) =>
                    /\ ctx.contacts = <<"None">>
                    /\ ctx.emails = NoEmailSentence
                    /\ ~ActivitiesFailed(i) =>
                           ctx.activities = activityList(SourceActivities(i))
              /\ ActivitiesFailed(i) =>
                    /\ ctx.activities = <<"None">>
                    /\ ~ContactsFailed(i) =>
                           /\ ctx.contacts = contactsList(SourceContacts(i))
                           /\ SearchesIssued(i) =
                                  1..Len(contactsWithEmail(SourceContacts(i)))
                           /\ ctx.emails = emailSummary(FetchedRecords(i))

\* One deal lost its contacts and kept its activities; another lost its
\* activities, kept its contacts and had its contact's mailbox searched.
C6_Witness ==
    \E i, j \in completed :
        /\ ContactsFailed(i) /\ ~ActivitiesFailed(i)
        /\ SourceContacts(i) # << >>
        /\ results[i + 1][1].activities # <<"None">>
        /\ ActivitiesFailed(j) /\ ~ContactsFailed(j)
        /\ SourceActivities(i) # << >>
        /\ SearchesIssued(j) # {}
        /\ results[j + 1][1].contacts # <<"None">>

\* The lines the mailbox of the k-th contact with an email would render.
ContactLines(i, k) ==
    [m \in 1..Len(SourceMessages(i, k)) |-> EmailLine(SourceMessages(i, k)[m])]

\* C7 Per-contact mailbox failure: in a deal's context every record of a
\* contact whose search succeeded appears, no record of a contact whose
\* search failed does, and a failed search fails neither a worker nor the
\* pool.
C7_MailboxFailureIsolated ==
    /\ pool # "rejected"
    /\ \A w \in DOMAIN workers : workers[w].st # "failed"
    /\ \A i \in completed :
          \A k \in SearchesIssued(i) :
              LET lines == ContactLines(i, k)
                  block == results[i + 1][1].emails
                  lost  == SearchFailed(i, k)
              IN  \A m \in DOMAIN lines : Occurs(lines[m], block) <=> ~lost

\* The search for the first contact failed, the record of the second contact
\* is in the context, and the run went on to its end.
C7_Witness ==
    /\ pc = "done"
    /\ SearchFailed(0, 1)
    /\ ~SearchFailed(0, 2)
    /\ 2 \in SearchesIssued(0)
    /\ Occurs(ContactLines(0, 2)[1], returned[1][1].emails)
    /\ ~Occurs(ContactLines(0, 1)[1], returned[1][1].emails)

\* C8 Context sentinel: the email block is the fixed sentence exactly when
\* no record was fetched for any contact of the deal; otherwise it is the
\* fetched records, one line each, in order.  Neither the block nor the
\* context is the empty string.
C8_ContextSentinel ==
    \A i \in completed :
        LET ctx  == results[i + 1][1]
            recs == FetchedRecords(i)
        IN  /\ ctx.emails = NoEmailSentence <=> recs = << >>
            /\ recs # << >> =>
                  /\ ctx.emails = Join([k \in 1..Len(recs) |-> EmailLine(recs[k])], <<"\n">>)
                  /\ Len(SelectSeq(ctx.emails, LAMBDA t : t = "\n")) + 1 = Len(recs)
            /\ ctx.emails # << >>
            /\ Render(ctx) # << >>

\* A deal with a contact and no communication carries the sentence, next to
\* a deal whose block lists records.
C8_Witness ==
    \E i, j \in completed :
        /\ ~ContactsFailed(i)
        /\ contactsWithEmail(SourceContacts(i)) # << >>
        /\ \A k \in SearchesIssued(i) : ~SearchFailed(i, k)
        /\ results[i + 1][1].emails = NoEmailSentence
        /\ Len(FetchedRecords(j)) >= 2
        /\ results[j + 1][1].emails # NoEmailSentence

\* C9 Zero open deals: with no open deal the pipeline returns
\* {dealsAnalyzed: 0, analysis: {deals: []}}, and it has issued no model
\* request and no contact, activity or mailbox fetch, nor started the pool.
C9_ZeroOpenDeals ==
    Len(deals) = 0 =>
        /\ modelCalls = 0
        /\ issued = {}
        /\ started = {}
        /\ pool = "idle"
        /\ pc \notin {"enrich", "analyze"}
        /\ pc = "done" => returnValue = <<EmptyResult>>

\* The pipeline returned for an empty deal list.
C9_Witness ==
    /\ pc = "done"
    /\ "getOpenDeals" \notin calls
    /\ Len(deals) = 0
    /\ returnValue = <<EmptyResult>>
    /\ modelCalls = 0

\* The context enrichDeal produced for a deal.
ProducedFor(deal) == (CHOOSE p \in produced : p.deal = deal).ctx

\* C10 Single model call: the model request is issued at most once per task
\* run, failures included; when it is issued every deal's enrichment has
\* completed, and its text is the contexts of all deals joined in deal
\* order.
C10_SingleModelCall ==
    /\ modelCalls <= 1
    /\ modelCalls = 1 =>
          /\ pc \in {"analyze", "done", "failed"}
          /\ completed = Slots
          /\ \A w \in DOMAIN workers : workers[w].st = "done"
          /\ modelInput =
                 Join([k \in 1..Len(deals) |-> Render(ProducedFor(deals[k]))], <<"\n\n">>)

\* The request was issued for three deals, it or the validation of its
\* response failed, and the run ended failed with one request made.
C10_Witness ==
    /\ pc = "failed"
    /\ modelCalls = 1
    /\ Len(deals) = 3
    /\ attempt = MaxAttempts

\* The two credential checks of analyzeDealPipeline.
CredentialChecks == {"validateCredentials", "validateGmailCredentials"}

\* Both checks of this run were fulfilled.
ChecksSucceeded == \A c \in CredentialChecks : <<c, "ok">> \in pipelineLog

\* A check of this run settled without being fulfilled.
CheckFailed(c) ==
    <<c, "issued">> \in pipelineLog /\ <<c, "ok">> \notin pipelineLog /\ c \notin calls

\* Something other than the checks was requested in this run: a stage fetch,
\* a deal listing, a contact, activity or mailbox fetch, or the model.
WorkRequested ==
    \/ \E c \in {"getStagesMap", "getOpenDeals"} : <<c, "issued">> \in pipelineLog \/ c \in calls
    \/ started # {}
    \/ issued # {}
    \/ pool # "idle"
    \/ modelCalls > 0

\* C11: no stage fetch, deal listing, contact, activity or mailbox fetch and
\* no model call is issued before validateCredentials and
\* validateGmailCredentials were both fulfilled; when a check fails the run
\* has failed and none of those calls was made.
C11_CredentialsFirst ==
    /\ WorkRequested => ChecksSucceeded
    /\ \A c \in CredentialChecks : CheckFailed(c) => pc = "failed" /\ ~WorkRequested

\* The CRM check succeeded, the mailbox check failed, and the run failed
\* having requested nothing else.
C11_Witness ==
    /\ pc = "failed"
    /\ <<"validateCredentials", "ok">> \in pipelineLog
    /\ CheckFailed("validateGmailCredentials")
    /\ ~WorkRequested

\* ---- analyzeDeals on its own

\* The tool_use blocks of the response analyzeDeals was applied to.
ToolBlocks ==
    IF fnInput # << >> /\ fnInput[1].ok
    THEN SelectSeq(fnInput[1].value, LAMBDA b : b.type = "tool_use")
    ELSE << >>

\* analyzeDeals returned for a response with a tool_use block.
Applied == fnOutput # << >> /\ ToolBlocks # << >>

\* The result { deals: D } for a list D of valid entries.
Canonical(D) == [deals |-> [k \in 1..Len(D) |-> ParsedEntry(D[k])]]

\* C12: for every schema-valid list D, analyzeDeals returns { deals: D }
\* when the tool input is the wrapped object { deals: D }, the bare array D,
\* or, for a D of one entry, that entry alone.
C12_UnwrappedShapes ==
    Applied =>
        \A D \in ValidLists :
            ToolBlocks[1].input \in ParsedShapes(D) =>
                fnOutput[1].ok /\ fnOutput[1].value = Canonical(D)

\* analyzeDeals was applied to a single entry, not wrapped and not listed.
C12_Witness ==
    /\ Applied
    /\ ToolBlocks[1].input \in ValidEntries
    /\ fnOutput[1].ok
    /\ Len(fnOutput[1].value.deals) = 1

\* The outcome for the string is the outcome for the payload it encodes.
SameAsParsed(p) ==
    LET parsed == NormalizeAndParse(p)
    IN  /\ fnOutput[1].ok = parsed.ok
        /\ parsed.ok => fnOutput[1].value = parsed.value

\* C13: when the tool input, or its deals field, is the JSON text of a
\* payload accepted in parsed form (wrapped object, bare array or single
\* object), analyzeDeals returns what it returns for the parsed payload.
C13_JsonStrings ==
    Applied =>
        \A D \in ValidLists : \A p \in ParsedShapes(D) :
            ToolBlocks[1].input \in StringShapes(p) => SameAsParsed(p)

\* ---- the model's answer in the pipeline

\* C14: when the response has no tool_use block, its string payload is not
\* JSON, or an entry lacks a required field or carries a value outside the
\* enums, analyzeDeals throws and analyzeDealPipeline fails with no result;
\* no list with the invalid entries dropped or defaulted is returned.
C14_IrreparableFails ==
    [][\A response \in IrreparableResponses(deals) :
           pc = "analyze" /\ ModelDone(response) => pc' = "failed" /\ returnValue' = << >>]_vars

\* The enrichment resolved, the one request was made, and the run failed
\* without a result.
C14_Witness ==
    /\ pc = "failed"
    /\ pool = "resolved"
    /\ modelCalls = 1
    /\ returnValue = << >>
    /\ \A response \in IrreparableResponses(deals) : ~analyzeDeals(response).ok

\* The ranks of a result, as a bag.
RanksOf(analysis) ==
    [r \in {analysis.deals[k].priority_rank : k \in DOMAIN analysis.deals} |->
        Cardinality({k \in DOMAIN analysis.deals : analysis.deals[k].priority_rank = r})]

\* C15: the ranks of a returned result for N submitted deals are exactly
\* 1, 2, ..., N, each once.
C15_RankDensity ==
    pc = "done" /\ returnValue # << >> =>
        LET analysis == returnValue[1].analysis
        IN  RanksOf(analysis) = [r \in 1..Len(deals) |-> 1]

\* C16: every deal_id of a returned result is the id of a deal that was
\* fetched and submitted in that run.
C16_DealIdContainment ==
    pc = "done" /\ returnValue # << >> =>
        LET analysis == returnValue[1].analysis
        IN  {analysis.deals[k].deal_id : k \in DOMAIN analysis.deals}
                \subseteq {OrElse(deals[i].id, 0) : i \in DOMAIN deals}

\* ---- getDealContacts on its own

\* C17: the list getDealContacts returns never holds two entries with the
\* same contact id, also when the source lists a person more than once.
C17_ContactsDeduplicated ==
    fnOutput # << >> =>
        \A j, k \in DOMAIN fnOutput[1] : j # k => fnOutput[1][j].id # fnOutput[1][k].id

\* The persons getDealContacts was applied to.
PersonsGiven == IF fnInput = << >> THEN << >> ELSE OrElse(fnInput[1], << >>)

PrimaryIndexes(emails) == {k \in DOMAIN emails : emails[k].primary}

Lowest(S) == CHOOSE k \in S : \A j \in S : k <= j

\* The primary entry's value when an entry is flagged, else the first
\* listed value, else null.
PrimaryElseFirst(person) ==
    LET emails == OrElse(person.emails, << >>)
        P      == PrimaryIndexes(emails)
    IN  IF P # {} THEN emails[Lowest(P)].value
        ELSE IF emails # << >> THEN emails[1].value
        ELSE << >>

\* The same, with a flagged entry that has no value passed over.
PrimaryValueElseFirst(person) ==
    LET emails == OrElse(person.emails, << >>)
        P      == PrimaryIndexes(emails)
    IN  IF P # {} /\ emails[Lowest(P)].value # << >> THEN emails[Lowest(P)].value
        ELSE IF emails # << >> THEN emails[1].value
        ELSE << >>

\* C18 as stated: every person's resolved email is the value of the entry
\* flagged primary when one exists, otherwise the first listed email,
\* otherwise null.
C18_ResolutionOrder ==
    fnOutput # << >> =>
        \A k \in DOMAIN PersonsGiven :
            fnOutput[1][k].email = PrimaryElseFirst(PersonsGiven[k])

\* C18 amended: every person's resolved email is the value of the first
\* entry flagged primary when that entry has a value, otherwise the value
\* of the first listed entry, otherwise null.
C18_ResolutionOrderAmended ==
    fnOutput # << >> =>
        /\ Len(fnOutput[1]) = Len(PersonsGiven)
        /\ \A k \in DOMAIN PersonsGiven :
               fnOutput[1][k].email = PrimaryValueElseFirst(PersonsGiven[k])

\* A person whose second email is the flagged one was resolved to it.
C18_Witness ==
    /\ fnOutput # << >>
    /\ Len(PersonsGiven) = 1
    /\ PersonsGiven[1].emails # << >>
    /\ LET emails == PersonsGiven[1].emails[1]
       IN  /\ Len(emails) = 2
           /\ ~emails[1].primary /\ emails[1].value = <<"a@x">>
           /\ emails[2].primary /\ emails[2].value = <<"b@x">>
    /\ fnOutput[1][1].email = <<"b@x">>

\* ---- searchEmails on its own

WithNonNullEmail(contacts) == {k \in DOMAIN contacts : contacts[k].email # << >>}

WithNonEmptyEmail(contacts) ==
    {k \in DOMAIN contacts : contacts[k].email # << >> /\ contacts[k].email[1] # ""}

\* How a contact reads in the rendered list, one without an email as
\* "no email".
Rendered(c) == <<c.name, " <", IF c.email = << >> THEN "no email" ELSE c.email[1], ">">>

\* Every fetched contact is in the rendered contact list.
ContactsKept(contacts, rendered) ==
    \A k \in DOMAIN contacts : Occurs(Rendered(contacts[k]), rendered)

\* C19 as stated: a contact whose email is null stays in the rendered list
\* as "no email" and is never searched for; one search is issued for each
\* contact that has an email (an email that is not null).
C19_NullEmailNotQueried ==
    \A i \in started :
        LET contacts == SourceContacts(i)
            searches == Cardinality(SearchesIssued(i))
            owed     == Cardinality(WithNonNullEmail(contacts))
        IN  /\ searches <= owed
            /\ i \in completed /\ ~ContactsFailed(i) =>
                   /\ ContactsKept(contacts, results[i + 1][1].contacts)
                   /\ searches = owed

\* C19 amended: a contact whose email is null or the empty string stays in
\* the rendered list (as "no email" when null) and is never searched for;
\* one search is issued for each contact whose email is a non-empty string.
C19_FalsyEmailNotQueried ==
    \A i \in started :
        LET contacts == SourceContacts(i)
            searches == Cardinality(SearchesIssued(i))
            owed     == Cardinality(WithNonEmptyEmail(contacts))
        IN  /\ searches <= owed
            /\ i \in completed /\ ~ContactsFailed(i) =>
                   /\ ContactsKept(contacts, results[i + 1][1].contacts)
                   /\ searches = owed

\* A deal with two contacts that have an address and one whose email is
\* null completed: two searches were issued and the third contact is
\* rendered as "no email".
C19_Witness ==
    \E i \in completed :
        /\ ~ContactsFailed(i)
        /\ \E k \in DOMAIN SourceContacts(i) : SourceContacts(i)[k].email = << >>
        /\ Cardinality(WithNonEmptyEmail(SourceContacts(i))) = 2
        /\ SearchesIssued(i) = {1, 2}
        /\ Occurs(<<"Unknown", " <", "no email", ">">>, results[i + 1][1].contacts)

\* ---- presentation order

\* C21: printDealAnalysis prints the entries in ascending priority_rank
\* order; entries of equal rank stay in the order they have in the result;
\* every entry of the result is printed exactly once.
C21_PresentationOrder ==
    fnOutput # << >> =>
        LET given == fnInput[1].analysis.deals
            printed == fnOutput[1]
        IN  /\ Len(printed) = Len(given)
            /\ \E p \in Permutations(1..Len(given)) :
                 /\ \A k \in 1..Len(given) : printed[k] = PrintedDeal(given[p[k]])
                 /\ \A j, k \in 1..Len(given) :
                      j < k =>
                        \/ given[p[j]].priority_rank < given[p[k]].priority_rank
                        \/ /\ given[p[j]].priority_rank = given[p[k]].priority_rank
                           /\ p[j] < p[k]

\* Three entries arrive as ranks 2, 1, 1: the two entries of rank 1 are
\* printed first, in their order of arrival, then the entry of rank 2.
C21_Witness ==
    /\ fnOutput # << >>
    /\ LET given == fnInput[1].analysis.deals
       IN  /\ Len(given) = 3
           /\ given[1].priority_rank = 2
           /\ given[2].priority_rank = 1
           /\ given[3].priority_rank = 1
           /\ given[2].deal_id # given[3].deal_id
           /\ fnOutput[1][1].url[3] = given[2].deal_id
           /\ fnOutput[1][2].url[3] = given[3].deal_id
           /\ fnOutput[1][3].url[3] = given[1].deal_id

\* ---- who ends the process

CrmSettled(i) ==
    \E w \in DOMAIN workers :
        /\ workers[w].st = "busy"
        /\ workers[w].i = i
        /\ workers[w].contacts # << >>
        /\ workers[w].activities # << >>

\* C23: the contacts fetch and the activities fetch of a deal are both
\* issued when its enrichment starts, so both are in flight before either
\* has completed, and no mailbox search of the deal is issued before both
\* have completed (while the deal is being enriched, a search of it was
\* issued only if both fetches have settled).
C23_CrmFetchesOverlap ==
    /\ \A i \in started : <<i, "contacts", 0>> \in issued /\ <<i, "activities", 0>> \in issued
    /\ \A w \in DOMAIN workers :
          workers[w].st = "busy" =>
             /\ workers[w].contacts = << >> /\ workers[w].activities = << >> =>
                   /\ <<workers[w].i, "contacts", 0>> \in issued
                   /\ <<workers[w].i, "activities", 0>> \in issued
             /\ (\E x \in issued : x[1] = workers[w].i /\ x[2] = "search") =>
                   CrmSettled(workers[w].i)

\* Both orders of completion occur: one deal has its contacts and awaits its
\* activities, another has its activities and awaits its contacts; neither
\* has issued a search.  A third state of the same run has searches issued.
C23_Witness ==
    /\ \E w \in DOMAIN workers :
          /\ workers[w].st = "busy"
          /\ workers[w].contacts # << >>
          /\ workers[w].activities = << >>
          /\ \A x \in issued : x[1] = workers[w].i => x[2] # "search"
    /\ \E w \in DOMAIN workers :
          /\ workers[w].st = "busy"
          /\ workers[w].contacts = << >>
          /\ workers[w].activities # << >>
          /\ \A x \in issued : x[1] = workers[w].i => x[2] # "search"
    /\ \E i \in completed : <<i, "search", 1>> \in issued

\* ---- what the pool bounds

\* The workers that are enriching a deal, and the mailbox searches in
\* flight, as <<worker, contact position>>.
Enriching == {w \in DOMAIN workers : workers[w].st = "busy"}

SearchesInFlight ==
    {x \in Enriching \X (1..Cardinality(issued)) :
        /\ x[2] \in SearchesOf(workers[x[1]])
        /\ workers[x[1]].emailResults[1][x[2]] = << >>}

\* C24: the pool bounds deals, not requests.  At most limit deals are being
\* enriched at any time, and a deal that has reached its searches has
\* issued one for each of its contacts with an email, all together; so the
\* searches in flight may outnumber the limit (the state C24_Witness).
C24_PoolBoundsDeals ==
    /\ Cardinality(Enriching) <= limit
    /\ \A w \in Enriching :
          workers[w].emailResults # << >> =>
             /\ Len(workers[w].emailResults[1]) = Len(contactsWithEmail(workers[w].contacts[1]))
             /\ \A k \in 1..Len(workers[w].emailResults[1]) :
                   <<workers[w].i, "search", k>> \in issued

\* More searches are in flight than the limit allows deals: with limit 1,
\* the one deal being enriched has two searches in flight.
C24_Witness ==
    /\ Cardinality(SearchesInFlight) > limit
    /\ Cardinality(Enriching) <= limit
    /\ \E w \in Enriching : Cardinality({x \in SearchesInFlight : x[1] = w}) >= 2

\* ---- order of the email records

\* What the mailbox lists for the c-th contact of the run, as records.
ListedRecords(c) ==
    searchEmails(ListMessages(mail[1].contacts[c].email[1], maxEmails))

\* The contact's records as enrichDeal tags them, or none when its search failed.
ContactRecords(c) ==
    IF mail[1].searches[c].outcome[1].ok
    THEN TagEmails(ListedRecords(c), mail[1].contacts[c])
    ELSE << >>

\* C25: the records a search returns are in the order of the mailbox's
\* message list, whatever order the detail requests completed in; and the
\* deal's records are grouped by contact in the order of the contact list,
\* whatever order the searches completed in.
C25_RecordOrder ==
    mail # << >> =>
        /\ \A c \in 1..Len(mail[1].contacts) :
              LET s == mail[1].searches[c]
              IN  s.outcome # << >> /\ s.outcome[1].ok => s.outcome[1].value = ListedRecords(c)
        /\ mail[1].allEmails # << >> =>
              mail[1].allEmails[1] =
                 Flat([c \in 1..Len(mail[1].contacts) |-> ContactRecords(c)])

\* Ann is listed before Bob; Bob's search completed first, and Ann's second
\* detail request completed before her first; all requests succeeded.
C25_Witness ==
    /\ mail # << >>
    /\ mail[1].allEmails # << >>
    /\ Len(mail[1].contacts) = 2
    /\ mail[1].contacts[1].name = "Ann"
    /\ mail[1].contacts[2].name = "Bob"
    /\ mail[1].settled = <<2, 1>>
    /\ mail[1].searches[1].arrivals = <<2, 1>>
    /\ mail[1].searches[1].outcome[1].ok
    /\ mail[1].searches[2].outcome[1].ok
    /\ Len(mail[1].allEmails[1]) = 3

\* ---- the deal listing and its limit

\* C26: getOpenDeals returns at most limit deals, the first deals of the
\* source in source order; every page request asks for
\* min(limit - already fetched, page cap) deals; a further page is requested
\* only while fewer than limit deals are gathered and the source gave a next
\* cursor, and the listing returns as soon as either fails.
C26_ListingRespectsLimit ==
    paging # << >> =>
        LET run == paging[1]
        IN  /\ \A k \in 1..Len(run.requests) :
                  /\ run.requests[k].asked = Min(run.limit - run.requests[k].fetched, PageCap)
                  /\ run.requests[k].asked >= 1
                  /\ run.requests[k].fetched < run.limit
                  /\ k > 1 => run.requests[k].cursor # << >>
            /\ run.st = "awaiting" => Len(run.allDeals) = run.requests[Len(run.requests)].fetched
            /\ run.st = "returned" =>
                  /\ Len(run.value) <= run.limit
                  /\ Len(run.value) = Min(run.limit, Len(run.allDeals))
                  /\ run.value = SubSeq(run.source, 1, Len(run.value))
                  /\ Len(run.allDeals) >= run.limit \/ run.cursor = << >>

\* Three deals were asked of a source that holds four: two page requests
\* were made, for 2 and for 1 deals, and the listing returned the first
\* three deals although the source offered a next cursor.
C26_Witness ==
    /\ paging # << >>
    /\ paging[1].st = "returned"
    /\ paging[1].limit = 3
    /\ Len(paging[1].source) = 4
    /\ Len(paging[1].requests) = 2
    /\ paging[1].requests[1].asked = 2
    /\ paging[1].requests[2].asked = 1
    /\ paging[1].cursor # << >>
    /\ Len(paging[1].value) = 3

\* ---- termination of the pool

\* C27: when every contacts, activities and mailbox request eventually
\* settles, runWithConcurrency eventually resolves, for every number of deals
\* n >= 1 and every limit k >= 1 of the run, and no worker stays in its loop:
\* once the pool runs, a state follows in which every worker has left its
\* loop and the pool has resolved with a result for every deal.
C27_PoolTerminates ==
    (pool = "running") ~>
        (/\ pool = "resolved"
         /\ AllWorkersDone(workers)
         /\ Len(returned) = Len(deals)
         /\ \A i \in 1..Len(returned) : returned[i] # << >>)

\* The pool resolved for two deals with a limit of one: the single worker
\* went round its loop twice and then found the cursor at the end.
C27_Witness ==
    /\ pool = "resolved"
    /\ limit = 1
    /\ Len(deals) = 2
    /\ claimLog = <<<<1, 0>>, <<1, 1>>>>
    /\ AllWorkersDone(workers)

\* ---- the concurrent pipeline against the sequential one

\* C28: when the pool has resolved, the list of contexts it returned and the
\* text sent to the model are those the sequential pipeline builds from the
\* same deals, stages and clock when the requests that failed in this run
\* fail and the others answer what the sources hold.
C28_SameAsSequential ==
    pool = "resolved" =>
        LET sequential == SeqDealContexts(deals, stages, Clock.now, emailDays, failed)
        IN  /\ Len(returned) = Len(sequential)
            /\ \A k \in 1..Len(returned) : returned[k] = <<sequential[k]>>
            /\ modelInput = SeqModelInput(sequential)

\* Three deals were enriched three at a time.  The activities of one deal
\* failed, a search of another failed, and the first deal has the records
\* of two contacts.
C28_Witness ==
    /\ pool = "resolved"
    /\ Len(deals) = 3
    /\ limit = CONCURRENCY
    /\ <<2, "activities", 0>> \in failed
    /\ <<1, "search", 1>> \in failed
    /\ \A x \in failed : x[1] # 0
    /\ claimLog = <<<<1, 0>>, <<2, 1>>, <<3, 2>>>>
    /\ Len(returned[1][1].emails) > Len(EmailLine(MailOf("bob@x")[1]))

\* ---- a rejection inside runWithConcurrency

\* The indexes whose fn rejected, and the claims made after a rejection.
Rejections == {x \in failed : x[2] = "fn"}

\* C29: when fn rejects for an item, runWithConcurrency rejects with the
\* error of the first rejection and never resolves; the worker whose await
\* threw claims no further index; no other worker is stopped: a worker ends
\* rejected only by its own item's rejection, and one that leaves its loop
\* does so because the cursor has reached the end, so the remaining items
\* are claimed and processed by the workers that are left.
C29_RejectionLeavesOthersRunning ==
    /\ Rejections # {} <=> pool = "rejected"
    /\ pool = "rejected" =>
          /\ fnOutput # << >>
          /\ ~fnOutput[1].ok
          /\ \E x \in Rejections :
                /\ x[1] = fnOutput[1].value[1]
                /\ \A y \in Rejections : x[3] <= y[3]
    /\ \A w \in DOMAIN workers :
          /\ workers[w].st \in {"busy", "done", "failed"}
          /\ workers[w].st = "failed" =>
                /\ \E x \in Rejections : x[1] = workers[w].i
                /\ \A k \in ClaimsOf(w) : claimLog[k][2] <= workers[w].i
          /\ workers[w].st = "done" => index = Len(deals)
    /\ (\A w \in DOMAIN workers : workers[w].st # "busy") /\ Len(deals) > 0 =>
          \/ \A w \in DOMAIN workers : workers[w].st = "failed"
          \/ started = 0..(Len(deals) - 1) /\ completed = started \ {x[1] : x \in Rejections}

\* The item at index 0 was rejected while the cursor stood at 2; the other
\* worker then claimed the remaining index 2 and completed it.
C29_Witness ==
    /\ pool = "rejected"
    /\ Len(deals) = 3
    /\ Rejections = {<<0, "fn", 2>>}
    /\ fnOutput[1].value = <<0>>
    /\ index = 3
    /\ completed = {1, 2}
    /\ \E w \in DOMAIN workers : workers[w].st = "failed" /\ workers[w].i = 0
    /\ \E w \in DOMAIN workers : workers[w].st = "done"

\* ---- a detail request fails

\* A detail request of the c-th contact's search has been rejected.
DetailFailed(c) ==
    \E m \in 1..Len(mail[1].searches[c].slots) :
        /\ mail[1].searches[c].slots[m] # << >>
        /\ ~mail[1].searches[c].slots[m][1].ok

\* C30: when one detail request of a search fails, the whole search fails
\* and its contact contributes no record to the deal, although the list
\* request and the other detail requests succeeded.
C30_DetailFailureFailsSearch ==
    mail # << >> =>
        \A c \in 1..Len(mail[1].contacts) :
            DetailFailed(c) =>
                /\ mail[1].searches[c].outcome # << >>
                /\ ~mail[1].searches[c].outcome[1].ok
                /\ mail[1].emailResults[c] = << << >> >>
                /\ mail[1].allEmails # << >> =>
                      \A k \in 1..Len(mail[1].allEmails[1]) :
                          mail[1].allEmails[1][k].contactName # mail[1].contacts[c].name

\* Ann's list request and her first detail request succeeded, her second
\* detail request failed: the deal's records are Bob's one record.
C30_Witness ==
    /\ mail # << >>
    /\ mail[1].allEmails # << >>
    /\ Len(mail[1].contacts) = 2
    /\ mail[1].contacts[1].name = "Ann"
    /\ mail[1].searches[1].list = <<TRUE>>
    /\ mail[1].searches[1].slots[1] # << >> /\ mail[1].searches[1].slots[1][1].ok
    /\ mail[1].searches[1].slots[2] # << >> /\ ~mail[1].searches[1].slots[2][1].ok
    /\ Len(mail[1].allEmails[1]) = 1
    /\ mail[1].allEmails[1][1].contactName = "Bob"

====
